---------------------------- MODULE Spec2Model ----------------------------
(***************************************************************************)
(* A model of three pieces of the query engine:                            *)
(*   - DatabaseCatalog (query/src/catalogs/impls/database_catalog.rs):     *)
(*     the name-keyed map of databases behind a read-write lock, with an   *)
(*     optional remote backend;                                            *)
(*   - the physical-type dispatch of temporal columns                      *)
(*     (common/datavalues/src/series/date_wrap.rs);                        *)
(*   - equality of scalar values and of Boolean columns                   *)
(*     (common/functions/src/scalars/comparisons/comparison_eq.rs);        *)
(*   - the plan visitor and display_schema (src/planners/plan_visitor.rs).*)
(***************************************************************************)
EXTENDS Integers, Sequences, FiniteSets, TLC

(***************************************************************************)
(* Bounds of the model.                                                    *)
(***************************************************************************)
\* rows of a Boolean column
MaxRows == 3

\* the client threads calling into one DatabaseCatalog
Threads == {1, 2}

(***************************************************************************)
(* Catalog: values.                                                        *)
(***************************************************************************)
\* database names a caller may pass; "Db" differs from its lower-case form
DbNames == {"db", "Db"}

\* str::to_lowercase on the names of the model
to_lowercase(s) == IF s = "Db" THEN "db" ELSE s

\* a database handle (Arc<dyn Database>): what kind of object, its name(),
\* its is_local()
Handle(k, n, l) == [kind |-> k, name |-> n, is_local |-> l]
NoHandle == Handle("none", "", FALSE)

\* LocalDatabase::create(): the handle create_database stores
LocalDatabase == Handle("LocalDatabase", "local", TRUE)

\* Result values: tag Ok/Err, the error code, the payload of Ok
Ok(v) == [tag |-> "Ok", code |-> "", val |-> v]
Err(c) == [tag |-> "Err", code |-> c, val |-> NoHandle]
OkUnit == Ok(NoHandle)

\* a call: the operation and its arguments (plan.db, plan.if_not_exists /
\* plan.if_exists, plan.engine; for register_database the database and what
\* its get_table_functions() answers)
Call(o, n, f, e, l, tf) ==
    [op |-> o, db |-> n, flag |-> f, engine |-> e, is_local |-> l, funcs |-> tf]
NoCall == Call("none", "", FALSE, "", FALSE, "")

Engines == {"Local", "Remote"}
\* get_table_functions(): no function, one function, or an error
FuncAnswers == {"none", "one", "err"}
TableFuncName == "numbers"

VARIABLES
    nclients,        \* how many client threads use the catalog in this run
    store_address,   \* conf.store.store_address is non-empty
    databases,       \* self.databases: key -> handle
    table_functions, \* self.table_functions: set of registered names
    backendDbs,      \* the databases the remote store holds
    dbWriter,        \* thread holding self.databases.write(), or 0
    dbReaders,       \* threads holding self.databases.read()
    pc,              \* each thread's position in its call
    arg,             \* each thread's call in flight
    out,             \* the return delivered by the last step, if it was one
    prev,            \* single client: the previous return
    snap,            \* single client: the catalog when the call began
    tfWriter,        \* thread holding self.table_functions.write(), or 0
    tfReaders,       \* threads holding self.table_functions.read()
    gat              \* get_all_tables: each thread's results and db_names

catVars == <<nclients, store_address, databases, table_functions, backendDbs,
             dbWriter, dbReaders, pc, arg, out, prev, snap, tfWriter,
             tfReaders, gat>>

VARIABLES
    d_variant,   \* which dispatch macro runs
    d_type,      \* data_type: the logical type of the column $s
    d_pc,        \* position in the macro
    d_phys,      \* phys_type
    d_s,         \* the type of the series s the macro holds
    d_casts,     \* casts performed so far
    d_applied,   \* the type of the series $method was called on
    d_opres,     \* what $method answered
    d_fail,      \* the cast that failed, if one did
    d_ret        \* what the macro evaluates to

dispVars == <<d_variant, d_type, d_pc, d_phys, d_s, d_casts, d_applied, d_opres,
              d_fail, d_ret>>

VARIABLES
    e_lhs,       \* BooleanColumn operand: its values
    e_rhs,       \* BooleanColumn operand: its values
    e_const,     \* the constant operand
    e_op,        \* the entry point called
    e_res,       \* its result: the values
    e_lvalid,    \* validity bitmap of the left column (FALSE: the row is null)
    e_rvalid,    \* validity bitmap of the right column
    e_resvalid   \* validity bitmap of the result

eqVars == <<e_lhs, e_rhs, e_const, e_op, e_res, e_lvalid, e_rvalid, e_resvalid>>

VARIABLES
    s_path,      \* the function of ComparisonEqImpl called, and whether it ran
    s_L,         \* type parameter L (T for eval_simd)
    s_R,         \* type parameter R
    s_M,         \* type parameter M
    s_l,         \* argument l
    s_r,         \* argument r
    s_res        \* the value returned

pathVars == <<s_path, s_L, s_R, s_M, s_l, s_r, s_res>>

VARIABLES
    v_kind,      \* the visitor: IndentVisitor, GraphvizVisitor or any other
    v_tree,      \* the plan: each node's inputs, in order
    v_stack,     \* the calls of accept in progress, outermost first
    v_at,        \* where the innermost accept stands
    v_log,       \* the visitor calls made so far, with their answers
    v_ret,       \* what the outermost accept returned
    indent,      \* IndentVisitor::indent
    parent_ids,  \* GraphvizVisitor::parent_ids
    id_gen,      \* GraphvizBuilder::id_gen
    with_schema, \* IndentVisitor::with_schema, GraphvizVisitor::with_schema
    v_f,         \* what the visitor has written to f, write by write
    v_plan       \* the calls of pre_visit_plan and post_visit_plan made

visVars == <<v_kind, v_tree, v_stack, v_at, v_log, v_ret, indent, parent_ids,
             id_gen, with_schema, v_f, v_plan>>

VARIABLES
    sc_schema,   \* display_schema's argument: the fields of the schema
    sc_idx,      \* fields written so far, or where fmt stands
    sc_out       \* the text written so far

schemaVars == <<sc_schema, sc_idx, sc_out>>

vars == <<catVars, dispVars, eqVars, pathVars, visVars, schemaVars>>

NoOut == [t |-> 0, call |-> NoCall, ret |-> OkUnit]
Returned(t, c, r) == [t |-> t, call |-> c, ret |-> r]

EmptyMap == [k \in {} |-> NoHandle]
\* HashMap::insert, HashMap::remove
MapInsert(m, k, v) == [x \in (DOMAIN m) \cup {k} |-> IF x = k THEN v ELSE m[x]]
MapRemove(m, k) == [x \in (DOMAIN m) \ {k} |-> m[x]]

Catalog == [dbs |-> databases, be |-> backendDbs, tfs |-> table_functions]

(***************************************************************************)
(* The remote store behind BackendClient.                                  *)
(***************************************************************************)
backend_get_database(be, n) ==
    IF n \in be THEN Ok(Handle("remote", n, FALSE)) ELSE Err("UnknownDatabase")

backend_create_result(be, plan) ==
    IF plan.db \in be
    THEN IF plan.flag THEN OkUnit ELSE Err("DatabaseAlreadyExists")
    ELSE OkUnit
backend_create_state(be, plan) == be \cup {plan.db}

backend_drop_result(be, plan) ==
    IF plan.db \in be
    THEN OkUnit
    ELSE IF plan.flag THEN OkUnit ELSE Err("UnknownDatabase")
backend_drop_state(be, plan) == be \ {plan.db}

(***************************************************************************)
(* The read-write lock on self.databases.                                  *)
(***************************************************************************)
CanRead == dbWriter = 0
CanWrite == dbWriter = 0 /\ dbReaders = {}

AcquireRead(t) == CanRead /\ dbReaders' = dbReaders \cup {t} /\ UNCHANGED dbWriter
ReleaseRead(t) == dbReaders' = dbReaders \ {t} /\ UNCHANGED dbWriter
AcquireWrite(t) == CanWrite /\ dbWriter' = t /\ UNCHANGED dbReaders
ReleaseWrite(t) == dbWriter' = 0 /\ UNCHANGED dbReaders

(***************************************************************************)
(* Bookkeeping of calls and returns.                                       *)
(***************************************************************************)
Single == nclients = 1

\* what no catalog operation touches
CatFrame0 ==
    UNCHANGED <<nclients, store_address, dispVars, eqVars, pathVars, visVars,
                schemaVars>>

\* ... and what the operations on self.databases alone leave as it is
CatFrame == CatFrame0 /\ UNCHANGED <<tfWriter, tfReaders, gat>>

\* thread t starts call c
Begin(t, c) ==
    /\ t <= nclients
    /\ pc[t] = "idle"
    /\ arg' = [arg EXCEPT ![t] = c]
    /\ out' = NoOut
    /\ prev' = IF Single THEN out ELSE prev
    /\ snap' = IF Single THEN Catalog ELSE snap

\* thread t moves on inside its call
Step(t, next) ==
    /\ pc' = [pc EXCEPT ![t] = next]
    /\ out' = NoOut
    /\ UNCHANGED <<arg, prev, snap>>

\* thread t returns r
Return(t, r) ==
    /\ pc' = [pc EXCEPT ![t] = "idle"]
    /\ arg' = [arg EXCEPT ![t] = NoCall]
    /\ out' = Returned(t, arg[t], r)
    /\ UNCHANGED <<prev, snap>>

(***************************************************************************)
(* get_database                                                            *)
(***************************************************************************)
\* a variant that asks the store first whenever one is configured
get_database_store_first(dbs, be, store, n) ==
    IF store /\ n \in be
    THEN backend_get_database(be, n)
    ELSE IF n \in DOMAIN dbs THEN Ok(dbs[n]) ELSE Err("UnknownDatabase")

\* the lookup of get_database on a given catalog
get_database(dbs, be, store, n) ==
    IF n \in DOMAIN dbs
    THEN Ok(dbs[n])
    ELSE IF store THEN backend_get_database(be, n) ELSE Err("UnknownDatabase")

\* self.databases.read(): the guard lives until get_database returns
GetDatabaseLock(t, n) ==
    /\ Begin(t, Call("get_database", n, FALSE, "", FALSE, ""))
    /\ AcquireRead(t)
    /\ pc' = [pc EXCEPT ![t] = "get_r"]
    /\ UNCHANGED <<databases, table_functions, backendDbs>>
    /\ CatFrame

GetDatabaseReturn(t) ==
    /\ pc[t] = "get_r"
    /\ Return(t, get_database(databases, backendDbs, store_address, arg[t].db))
    /\ ReleaseRead(t)
    /\ UNCHANGED <<databases, table_functions, backendDbs>>
    /\ CatFrame

(***************************************************************************)
(* register_database                                                       *)
(***************************************************************************)
RegisterLock(t, n, l, tf) ==
    /\ Begin(t, Call("register_database", n, FALSE, "", l, tf))
    /\ AcquireWrite(t)
    /\ pc' = [pc EXCEPT ![t] = "reg_w"]
    /\ UNCHANGED <<databases, table_functions, backendDbs>>
    /\ CatFrame

\* the loop body, lock by lock, is RegisterInsertDatabase, RegisterFuncLock,
\* RegisterFuncInsert and RegisterReturn below, with the lock of
\* self.table_functions

(***************************************************************************)
(* create_database                                                         *)
(***************************************************************************)
CreateLock(t, n, ine, e) ==
    /\ Begin(t, Call("create_database", n, ine, e, FALSE, ""))
    /\ AcquireRead(t)
    /\ pc' = [pc EXCEPT ![t] = "create_r"]
    /\ UNCHANGED <<databases, table_functions, backendDbs>>
    /\ CatFrame

\* a variant that answers Ok whatever plan.if_not_exists says
create_exists_result_ignoring_flag(plan) == OkUnit

\* the early return when the database exists
create_exists_result(plan) ==
    IF plan.flag THEN OkUnit ELSE Err("UnknownDatabase")

\* a variant whose read guard outlives the condition (as an `if let` on the
\* lookup would keep it)
CreateCheckHoldingGuard(t) ==
    /\ pc[t] = "create_r"
    /\ IF arg[t].db \in DOMAIN databases
       THEN ReleaseRead(t) /\ Return(t, create_exists_result(arg[t]))
       ELSE /\ UNCHANGED <<dbWriter, dbReaders>>
            /\ Step(t, IF arg[t].engine = "Local" THEN "create_local" ELSE "create_remote")
    /\ UNCHANGED <<databases, table_functions, backendDbs>>
    /\ CatFrame

\* self.databases.read().get(db_name).is_some(); the guard drops with the
\* condition
CreateCheck(t) ==
    /\ pc[t] = "create_r"
    /\ ReleaseRead(t)
    /\ IF arg[t].db \in DOMAIN databases
       THEN Return(t, create_exists_result(arg[t]))
       ELSE Step(t, IF arg[t].engine = "Local" THEN "create_local" ELSE "create_remote")
    /\ UNCHANGED <<databases, table_functions, backendDbs>>
    /\ CatFrame

\* a variant that takes the shared lock for the insert
CreateAcquireRead(t) ==
    /\ pc[t] = "create_local"
    /\ AcquireRead(t)
    /\ Step(t, "create_w")
    /\ UNCHANGED <<databases, table_functions, backendDbs>>
    /\ CatFrame

\* self.databases.write()
CreateAcquireWrite(t) ==
    /\ pc[t] = "create_local"
    /\ AcquireWrite(t)
    /\ Step(t, "create_w")
    /\ UNCHANGED <<databases, table_functions, backendDbs>>
    /\ CatFrame

\* .insert(plan.db, Arc::new(database)); the guard drops; Ok(())
CreateInsert(t) ==
    /\ pc[t] = "create_w"
    /\ databases' = MapInsert(databases, arg[t].db, LocalDatabase)
    /\ ReleaseWrite(t)
    /\ Return(t, OkUnit)
    /\ UNCHANGED <<table_functions, backendDbs>>
    /\ CatFrame

\* self.backend.create_database(plan).await?; Ok(())
CreateRemote(t) ==
    /\ pc[t] = "create_remote"
    /\ backendDbs' = IF backend_create_result(backendDbs, arg[t]).tag = "Ok"
                     THEN backend_create_state(backendDbs, arg[t])
                     ELSE backendDbs
    /\ Return(t, backend_create_result(backendDbs, arg[t]))
    /\ UNCHANGED <<databases, table_functions, dbWriter, dbReaders>>
    /\ CatFrame

(***************************************************************************)
(* drop_database                                                           *)
(***************************************************************************)
\* a variant with the two answers exchanged
drop_missing_result_inverted(plan) ==
    IF plan.flag THEN Err("UnknownDatabase") ELSE OkUnit

\* the early return when get_database fails
drop_missing_result(plan) ==
    IF plan.flag THEN OkUnit ELSE Err("UnknownDatabase")

\* let db = self.get_database(db_name): the read guard of get_database
DropLock(t, n, ie) ==
    /\ Begin(t, Call("drop_database", n, ie, "", FALSE, ""))
    /\ AcquireRead(t)
    /\ pc' = [pc EXCEPT ![t] = "drop_r"]
    /\ UNCHANGED <<databases, table_functions, backendDbs>>
    /\ CatFrame

\* get_database returns; match db { Err(_) => return ..., Ok(v) => v }
DropResolve(t) ==
    /\ pc[t] = "drop_r"
    /\ ReleaseRead(t)
    /\ LET db == get_database(databases, backendDbs, store_address, arg[t].db) IN
       IF db.tag = "Err"
       THEN Return(t, drop_missing_result(arg[t]))
       ELSE Step(t, IF db.val.is_local THEN "drop_local" ELSE "drop_remote")
    /\ UNCHANGED <<databases, table_functions, backendDbs>>
    /\ CatFrame

\* self.databases.write()
DropAcquireWrite(t) ==
    /\ pc[t] = "drop_local"
    /\ AcquireWrite(t)
    /\ Step(t, "drop_w")
    /\ UNCHANGED <<databases, table_functions, backendDbs>>
    /\ CatFrame

\* a variant that removes the lower-cased name, the key register_database
\* stores under
DropRemoveLowerCased(t) ==
    /\ pc[t] = "drop_w"
    /\ databases' = MapRemove(databases, to_lowercase(arg[t].db))
    /\ ReleaseWrite(t)
    /\ Return(t, OkUnit)
    /\ UNCHANGED <<table_functions, backendDbs>>
    /\ CatFrame

\* .remove(db_name); the guard drops; Ok(())
DropRemove(t) ==
    /\ pc[t] = "drop_w"
    /\ databases' = MapRemove(databases, arg[t].db)
    /\ ReleaseWrite(t)
    /\ Return(t, OkUnit)
    /\ UNCHANGED <<table_functions, backendDbs>>
    /\ CatFrame

\* self.backend.drop_database(plan).await?; Ok(())
DropRemote(t) ==
    /\ pc[t] = "drop_remote"
    /\ backendDbs' = IF backend_drop_result(backendDbs, arg[t]).tag = "Ok"
                     THEN backend_drop_state(backendDbs, arg[t])
                     ELSE backendDbs
    /\ Return(t, backend_drop_result(backendDbs, arg[t]))
    /\ UNCHANGED <<databases, table_functions, dbWriter, dbReaders>>
    /\ CatFrame

(***************************************************************************)
(* The read-write lock on self.table_functions.                            *)
(***************************************************************************)
AcquireFuncRead(t) ==
    tfWriter = 0 /\ tfReaders' = tfReaders \cup {t} /\ UNCHANGED tfWriter
ReleaseFuncRead(t) == tfReaders' = tfReaders \ {t} /\ UNCHANGED tfWriter
AcquireFuncWrite(t) ==
    tfWriter = 0 /\ tfReaders = {} /\ tfWriter' = t /\ UNCHANGED tfReaders
ReleaseFuncWrite(t) == tfWriter' = 0 /\ UNCHANGED tfReaders

(***************************************************************************)
(* register_database, lock by lock, for a vector of one database with at   *)
(* most one table function: self.table_functions.write() is taken inside   *)
(* db_lock and is a wait of its own.                                       *)
(***************************************************************************)
\* db_lock.insert(name.to_lowercase(), database); get_table_functions()?
RegisterInsertDatabase(t) ==
    /\ pc[t] = "reg_w"
    /\ databases' = MapInsert(databases, to_lowercase(arg[t].db),
                              Handle("registered", arg[t].db, arg[t].is_local))
    /\ IF arg[t].funcs = "one"
       THEN Step(t, "reg_tf") /\ UNCHANGED <<dbWriter, dbReaders>>
       ELSE /\ Return(t, IF arg[t].funcs = "err"
                         THEN Err("GetTableFunctions") ELSE OkUnit)
            /\ ReleaseWrite(t)
    /\ UNCHANGED <<table_functions, backendDbs>>
    /\ CatFrame

\* self.table_functions.write(), inside db_lock
RegisterFuncLock(t) ==
    /\ pc[t] = "reg_tf"
    /\ AcquireFuncWrite(t)
    /\ Step(t, "reg_tfw")
    /\ UNCHANGED <<databases, table_functions, backendDbs, dbWriter, dbReaders,
                   gat>>
    /\ CatFrame0

\* .insert(name, tbl_func); the write guard of table_functions, a temporary
\* of the statement, drops at its end; db_lock is still held
RegisterFuncInsert(t) ==
    /\ pc[t] = "reg_tfw"
    /\ table_functions' = table_functions \cup {TableFuncName}
    /\ ReleaseFuncWrite(t)
    /\ Step(t, "reg_ret")
    /\ UNCHANGED <<databases, backendDbs, dbWriter, dbReaders, gat>>
    /\ CatFrame0

\* the loops end: Ok(()), db_lock drops
RegisterReturn(t) ==
    /\ pc[t] = "reg_ret"
    /\ Return(t, OkUnit)
    /\ ReleaseWrite(t)
    /\ UNCHANGED <<databases, table_functions, backendDbs>>
    /\ CatFrame

(***************************************************************************)
(* get_table_function                                                      *)
(***************************************************************************)
TableFuncNames == {TableFuncName, "unknown"}

\* let table_func_lock = self.table_functions.read()
GetTableFunctionLock(t, n) ==
    /\ Begin(t, Call("get_table_function", n, FALSE, "", FALSE, ""))
    /\ AcquireFuncRead(t)
    /\ pc' = [pc EXCEPT ![t] = "gtf_r"]
    /\ UNCHANGED <<databases, table_functions, backendDbs, dbWriter, dbReaders,
                   gat>>
    /\ CatFrame0

\* a variant that looks the function's database up in self.databases while
\* it holds the guard
GetTableFunctionReturnThroughDatabases(t) ==
    /\ pc[t] = "gtf_r"
    /\ CanRead
    /\ Return(t, IF arg[t].db \in table_functions
                 THEN OkUnit ELSE Err("UnknownTableFunction"))
    /\ ReleaseFuncRead(t)
    /\ UNCHANGED <<databases, table_functions, backendDbs, dbWriter, dbReaders,
                   gat>>
    /\ CatFrame0

\* .get(name).ok_or_else(UnknownTableFunction)?; Ok(table.clone())
GetTableFunctionReturn(t) ==
    /\ pc[t] = "gtf_r"
    /\ Return(t, IF arg[t].db \in table_functions
                 THEN OkUnit ELSE Err("UnknownTableFunction"))
    /\ ReleaseFuncRead(t)
    /\ UNCHANGED <<databases, table_functions, backendDbs, dbWriter, dbReaders,
                   gat>>
    /\ CatFrame0

(***************************************************************************)
(* get_databases                                                           *)
(***************************************************************************)
\* BackendClient::get_databases: the names the store holds
backend_get_databases(be) == be

\* the order of String on the names of the model, by bytes: "Db" < "db"
NameOrder == <<"Db", "db">>

\* databases.sort() on the local keys extended with the remote names: a name
\* held by both is there twice
sort(locals, remotes) ==
    LET RECURSIVE from(_)
        from(k) ==
            IF k > Len(NameOrder) THEN <<>>
            ELSE (IF NameOrder[k] \in locals THEN <<NameOrder[k]>> ELSE <<>>)
                 \o (IF NameOrder[k] \in remotes THEN <<NameOrder[k]>> ELSE <<>>)
                 \o from(k + 1)
    IN  from(1)

\* let locals = self.databases.read(): the guard lives to the end
GetDatabasesLock(t) ==
    /\ Begin(t, Call("get_databases", "", FALSE, "", FALSE, ""))
    /\ AcquireRead(t)
    /\ pc' = [pc EXCEPT ![t] = "gdbs_r"]
    /\ UNCHANGED <<databases, table_functions, backendDbs>>
    /\ CatFrame

\* the local keys, then the remote names when a store is configured (the
\* call may fail); the names are returned sorted, here as the two sets
GetDatabasesReturn(t, ok) ==
    /\ pc[t] = "gdbs_r"
    /\ ok \/ store_address
    /\ Return(t, IF ~ok THEN Err("Backend")
                 ELSE Ok(sort(DOMAIN databases,
                              IF store_address
                              THEN backend_get_databases(backendDbs)
                              ELSE {})))
    /\ ReleaseRead(t)
    /\ UNCHANGED <<databases, table_functions, backendDbs>>
    /\ CatFrame

(***************************************************************************)
(* get_all_tables                                                          *)
(***************************************************************************)
\* a TableMeta: the database it belongs to and its name
TableMeta(d, n) == [db |-> d, table |-> n]

\* Database::get_tables: a registered database has one table, a database
\* create_database has just made has none
get_tables(h) ==
    IF h.kind = "registered" THEN {TableMeta(h.name, "t1")} ELSE {}

\* BackendClient::get_all_tables: one table in each database of the store,
\* paired with the database's name
backend_get_all_tables(be) == {<<n, TableMeta(n, "remote")>> : n \in be}

\* the loop over self.databases: (db_name, table) for every table of every
\* entry
local_tables(dbs) ==
    UNION {{<<k, tbl>> : tbl \in get_tables(dbs[k])} : k \in DOMAIN dbs}

\* a variant that keeps every table of the store
remote_tables_unfiltered(be, db_names) == backend_get_all_tables(be)

\* .filter(|(n, _)| !db_names.contains(n))
remote_tables(be, db_names) ==
    {r \in backend_get_all_tables(be) : r[1] \notin db_names}

Locals(r, n) == [results |-> r, db_names |-> n]
NoLocals == Locals({}, {})

\* self.databases.read() for the length of the loop
GetAllTablesLock(t) ==
    /\ Begin(t, Call("get_all_tables", "", FALSE, "", FALSE, ""))
    /\ AcquireRead(t)
    /\ pc' = [pc EXCEPT ![t] = "gat_r"]
    /\ UNCHANGED <<databases, table_functions, backendDbs>>
    /\ CatFrame

\* the loop: v.get_tables()? may fail for a database of the map; the guard
\* drops after the loop; without a store address, Ok(results)
GetAllTablesLocal(t, ok) ==
    /\ pc[t] = "gat_r"
    /\ ok \/ databases # EmptyMap
    /\ ReleaseRead(t)
    /\ IF ~ok
       THEN Return(t, Err("GetTables")) /\ UNCHANGED gat
       ELSE IF store_address
            THEN /\ Step(t, "gat_backend")
                 /\ gat' = [gat EXCEPT ![t] = Locals(local_tables(databases),
                                                     DOMAIN databases)]
            ELSE /\ Return(t, Ok(local_tables(databases)))
                 /\ UNCHANGED gat
    /\ UNCHANGED <<databases, table_functions, backendDbs, tfWriter, tfReaders>>
    /\ CatFrame0

\* self.backend.get_all_tables()? filtered by db_names and appended
GetAllTablesRemote(t, ok) ==
    /\ pc[t] = "gat_backend"
    /\ Return(t, IF ~ok THEN Err("Backend")
                 ELSE Ok(gat[t].results
                         \cup remote_tables(backendDbs, gat[t].db_names)))
    /\ gat' = [gat EXCEPT ![t] = NoLocals]
    /\ UNCHANGED <<databases, table_functions, backendDbs, dbWriter, dbReaders,
                   tfWriter, tfReaders>>
    /\ CatFrame0

(***************************************************************************)
(* Physical-type dispatch (date_wrap.rs): values.                          *)
(***************************************************************************)
\* a DataType: its variant and the variant's parameters
DT(tag, unit, tz) == [tag |-> tag, unit |-> unit, tz |-> tz]
Plain(tag) == DT(tag, "", "")
NoType == Plain("none")

TimeUnits == {"Second", "Millisecond", "Microsecond", "Nanosecond"}
TimeZones == {"None", "UTC"}
IntervalUnits == {"YearMonth", "DayTime"}

PlainTags == {"Boolean", "Int8", "Int16", "Int32", "Int64", "UInt8", "UInt16",
              "UInt32", "UInt64", "Float32", "Float64", "Utf8", "Binary"}
TemporalTypes ==
    {Plain("Date32"), Plain("Date64")}
    \cup {DT("Timestamp", u, z) : u \in TimeUnits, z \in TimeZones}
    \cup {DT("Interval", u, "") : u \in IntervalUnits}
DataTypes == {Plain(g) : g \in PlainTags} \cup TemporalTypes

Int32 == Plain("Int32")
Int64 == Plain("Int64")

Variants == {"physical_dispatch", "try_physical_dispatch",
             "opt_physical_dispatch", "cast_and_apply"}

\* what a macro evaluates to: a bare Series ("value"), Ok/Err of a Result,
\* Some/None of an Option, or a panic; "none" while it runs
Outcome(k, ty, c) == [kind |-> k, type |-> ty, code |-> c]
Running == Outcome("none", NoType, "")
Panic(msg) == Outcome("panic", NoType, msg)

\* a variant with the two interval units exchanged
physical_type_intervals_swapped(dt) ==
    IF dt.tag = "Date64" \/ dt.tag = "Timestamp"
       \/ (dt.tag = "Interval" /\ dt.unit = "YearMonth")
    THEN Outcome("value", Int64, "")
    ELSE IF dt.tag = "Date32" \/ (dt.tag = "Interval" /\ dt.unit = "DayTime")
    THEN Outcome("value", Int32, "")
    ELSE Panic("already a physical type")

\* a variant whose last arm is the identity (dt => dt)
physical_type_identity(dt) ==
    IF dt.tag = "Date64" \/ dt.tag = "Timestamp"
       \/ (dt.tag = "Interval" /\ dt.unit = "DayTime")
    THEN Outcome("value", Int64, "")
    ELSE IF dt.tag = "Date32" \/ (dt.tag = "Interval" /\ dt.unit = "YearMonth")
    THEN Outcome("value", Int32, "")
    ELSE Outcome("value", dt, "")

\* DataArray::physical_type: the type, or the panic of its last arm
physical_type(dt) ==
    IF dt.tag = "Date64" \/ dt.tag = "Timestamp"
       \/ (dt.tag = "Interval" /\ dt.unit = "DayTime")
    THEN Outcome("value", Int64, "")
    ELSE IF dt.tag = "Date32" \/ (dt.tag = "Interval" /\ dt.unit = "YearMonth")
    THEN Outcome("value", Int32, "")
    ELSE Panic("already a physical type")

\* cast_with_type(&target): a Series of the target type, or an error
cast_with_type(target, ok) ==
    IF ok THEN Outcome("Ok", target, "") ELSE Outcome("Err", NoType, "UnsupportedCast")

\* how a variant wraps a returned Series
Wrap(variant, ty) ==
    Outcome(CASE variant = "try_physical_dispatch" -> "Ok"
              [] variant = "opt_physical_dispatch" -> "Some"
              [] OTHER -> "value", ty, "")

\* what s.$method(args) may answer under each variant: a Series of any type;
\* an Err under `?` on a Result; a None under `?` on an Option
MethodAnswers(variant) ==
    {Outcome("value", ty, "") : ty \in DataTypes}
    \cup (IF variant \in {"try_physical_dispatch", "cast_and_apply"}
          THEN {Outcome("Err", NoType, "Method")} ELSE {})
    \cup (IF variant = "opt_physical_dispatch"
          THEN {Outcome("None", NoType, "")} ELSE {})

\* a variant that restores whatever the method returned
TypeAlwaysRestored(s, phys) == TRUE

\* the test `s.data_type() == phys_type` that decides the restore
TypeUnchanged(s, phys) == s = phys

\* what no dispatch step touches
DispFrame == UNCHANGED <<catVars, eqVars, pathVars, visVars, schemaVars>>

DispFinish(r) ==
    /\ d_pc' = "done"
    /\ d_ret' = r

\* let data_type = $s.data_type(); let phys_type = $s.physical_type();
DispatchPhysicalType ==
    /\ d_pc = "start"
    /\ LET p == physical_type(d_type) IN
       IF p.kind = "panic"
       THEN DispFinish(p) /\ UNCHANGED d_phys
       ELSE d_pc' = "cast" /\ d_phys' = p.type /\ UNCHANGED d_ret
    /\ UNCHANGED <<d_variant, d_type, d_s, d_casts, d_applied, d_opres, d_fail>>
    /\ DispFrame

\* let s = $s.cast_with_type(&phys_type).unwrap();
DispatchCast ==
    /\ d_pc = "cast"
    /\ \E ok \in BOOLEAN :
        LET c == cast_with_type(d_phys, ok) IN
        /\ d_casts' = d_casts + 1
        /\ IF c.kind = "Ok"
           THEN d_pc' = "apply" /\ d_s' = c.type /\ UNCHANGED <<d_ret, d_fail>>
           ELSE DispFinish(Panic("unwrap")) /\ d_fail' = "step1" /\ UNCHANGED d_s
    /\ UNCHANGED <<d_variant, d_type, d_phys, d_applied, d_opres>>
    /\ DispFrame

\* let s = s.$method($($args),*) with the `?` of the try and opt variants;
\* cast_and_apply ends here with the method's own answer
DispatchApply ==
    /\ d_pc = "apply"
    /\ \E a \in MethodAnswers(d_variant) :
        /\ d_applied' = d_s
        /\ d_opres' = a
        /\ IF d_variant = "cast_and_apply"
           THEN DispFinish(a) /\ UNCHANGED d_s
           ELSE IF a.kind = "value"
           THEN d_pc' = "restore" /\ d_s' = a.type /\ UNCHANGED d_ret
           ELSE DispFinish(a) /\ UNCHANGED d_s
    /\ UNCHANGED <<d_variant, d_type, d_phys, d_casts, d_fail>>
    /\ DispFrame

\* if s.data_type() == phys_type { s.cast_with_type(data_type) } else { s }
\* the try variant returns the cast's Result, the others unwrap it
DispatchRestore ==
    /\ d_pc = "restore"
    /\ IF TypeUnchanged(d_s, d_phys)
       THEN \E ok \in BOOLEAN :
            LET c == cast_with_type(d_type, ok) IN
            /\ d_casts' = d_casts + 1
            /\ IF c.kind = "Ok"
               THEN /\ DispFinish(Wrap(d_variant, c.type))
                    /\ d_s' = c.type
                    /\ UNCHANGED d_fail
               ELSE /\ DispFinish(IF d_variant = "try_physical_dispatch"
                                  THEN c ELSE Panic("unwrap"))
                    /\ d_fail' = "step3"
                    /\ UNCHANGED d_s
       ELSE /\ DispFinish(Wrap(d_variant, d_s))
            /\ UNCHANGED <<d_s, d_casts, d_fail>>
    /\ UNCHANGED <<d_variant, d_type, d_phys, d_applied, d_opres>>
    /\ DispFrame

DispInit ==
    /\ d_variant \in Variants
    /\ d_type \in DataTypes
    /\ d_pc = "start"
    /\ d_phys = NoType
    /\ d_s = d_type
    /\ d_casts = 0
    /\ d_applied = NoType
    /\ d_opres = Running
    /\ d_fail = "none"
    /\ d_ret = Running

\* the dispatch at rest, for the specifications of the other components
DispIdle ==
    /\ d_variant = "physical_dispatch"
    /\ d_type = Plain("Date32")
    /\ d_pc = "off"
    /\ d_phys = NoType
    /\ d_s = NoType
    /\ d_casts = 0
    /\ d_applied = NoType
    /\ d_opres = Running
    /\ d_fail = "none"
    /\ d_ret = Running

(***************************************************************************)
(* Boolean equality (comparison_eq.rs).                                    *)
(***************************************************************************)
\* a ^ b
Xor(a, b) == (a /\ ~b) \/ (~a /\ b)

\* a BooleanColumn: one value per row and the validity bitmap
BooleanColumn(v, b) == [values |-> v, validity |-> b]

\* CommonBooleanOp::compare_op (super::utils): the closure op on the rows of
\* two columns.  The validity of the result is the helper's business: it is
\* taken from the specification's rule (a row is valid when it is valid in
\* both), and no property of this development rests on it
compare_op(lhs, rhs, op) ==
    BooleanColumn([i \in 1..Len(lhs.values) |-> op[lhs.values[i], rhs.values[i]]],
                  [i \in 1..Len(lhs.values) |-> lhs.validity[i] /\ rhs.validity[i]])
\* CommonBooleanOp::compare_op_scalar (super::utils): the closure op on each
\* row and the constant.  The validity of the result, again the helper's
\* business, is taken from the specification's rule (the column's validity)
compare_op_scalar(lhs, rhs, op) ==
    BooleanColumn([i \in 1..Len(lhs.values) |-> op[lhs.values[i], rhs]],
                  lhs.validity)

\* a variant without the negation: a ^ b
vector_vector_xor(lhs, rhs) ==
    compare_op(lhs, rhs, [a, b \in BOOLEAN |-> Xor(a, b)])

\* |a, b| !(a ^ b)
vector_vector(lhs, rhs) ==
    compare_op(lhs, rhs, [a, b \in BOOLEAN |-> ~Xor(a, b)])

\* lhs.clone() for true, |a, _| !a for false
vector_const(lhs, rhs) ==
    IF rhs THEN lhs ELSE compare_op_scalar(lhs, rhs, [a, b \in BOOLEAN |-> ~a])

const_vector(lhs, rhs) == vector_const(rhs, lhs)

BooleanColumns(n) == [1..n -> BOOLEAN]

EqFrame == UNCHANGED <<catVars, dispVars, pathVars, visVars, schemaVars>>

\* the entry point named op has returned column res
EqReturn(op, res) ==
    /\ e_op = "none"
    /\ e_op' = op
    /\ e_res' = res.values
    /\ e_resvalid' = res.validity
    /\ UNCHANGED <<e_lhs, e_rhs, e_const, e_lvalid, e_rvalid>>
    /\ EqFrame

EqVectorVector ==
    EqReturn("vector_vector",
             vector_vector(BooleanColumn(e_lhs, e_lvalid),
                           BooleanColumn(e_rhs, e_rvalid)))

EqVectorConst ==
    EqReturn("vector_const",
             vector_const(BooleanColumn(e_lhs, e_lvalid), e_const))

EqConstVector ==
    EqReturn("const_vector",
             const_vector(e_const, BooleanColumn(e_rhs, e_rvalid)))

\* two columns of one length and a constant
EqInit ==
    /\ \E n \in 0..MaxRows :
        /\ e_lhs \in BooleanColumns(n)
        /\ e_rhs \in BooleanColumns(n)
        /\ e_lvalid \in BooleanColumns(n)
        /\ e_rvalid \in BooleanColumns(n)
    /\ e_const \in BOOLEAN
    /\ e_op = "none"
    /\ e_res = <<>>
    /\ e_resvalid = <<>>

EqIdle ==
    /\ e_lhs = <<>>
    /\ e_rhs = <<>>
    /\ e_const = FALSE
    /\ e_op = "off"
    /\ e_res = <<>>
    /\ e_lvalid = <<>>
    /\ e_rvalid = <<>>
    /\ e_resvalid = <<>>

(***************************************************************************)
(* Equality of scalar values: ComparisonEqImpl (comparison_eq.rs).         *)
(***************************************************************************)
\* the integer primitive types of the model, 8 and 16 bits wide
PrimitiveTypes == {"Int8", "UInt8", "Int16", "UInt16"}

Bits(ty) == IF ty \in {"Int8", "UInt8"} THEN 8 ELSE 16
Signed(ty) == ty \in {"Int8", "Int16"}

\* T::MIN and T::MAX
MinOf(ty) == IF Signed(ty) THEN -(2 ^ (Bits(ty) - 1)) ELSE 0
MaxOf(ty) == IF Signed(ty) THEN 2 ^ (Bits(ty) - 1) - 1 ELSE 2 ^ Bits(ty) - 1

\* the values of a type the model draws: both ends of its range, the values
\* next to them and around zero, and the ends of the 8-bit ranges
ValuesOf(ty) ==
    {v \in {MinOf(ty), MinOf(ty) + 1, -129, -128, -1, 0, 1, 2, 127, 128, 255,
            256, MaxOf(ty) - 1, MaxOf(ty)} : MinOf(ty) <= v /\ v <= MaxOf(ty)}

\* AsPrimitive<M>::as_, the cast `v as M` between integer types: the low
\* Bits(M) bits of v in two's complement, read with M's signedness
as_(v, M) ==
    LET m == v % (2 ^ Bits(M))
    IN IF Signed(M) /\ m >= 2 ^ (Bits(M) - 1) THEN m - 2 ^ Bits(M) ELSE m

\* a variant converting r to L's type and comparing there
eval_primitive_in_L(L, R, M, l, r) == l = as_(r, L)

\* l.to_owned_scalar().as_().eq(&r.to_owned_scalar().as_())
eval_primitive(L, R, M, l, r) == as_(l, M) = as_(r, M)

\* the lanes of T::Simd (Simd8: eight lanes)
Lanes == 8

RECURSIVE BitMask(_, _)
\* the u8 whose bit i (least significant first) is b[i + 1], from lane k on
BitMask(b, k) ==
    IF k > Len(b) THEN 0
    ELSE (IF b[k] THEN 2 ^ (k - 1) ELSE 0) + BitMask(b, k + 1)

\* Simd8PartialEq::eq: the mask of the lanes that are equal
Simd8PartialEq_eq(l, r) == BitMask([i \in 1..Len(l) |-> l[i] = r[i]], 1)

\* a variant with the mask of the lanes that differ: l.neq(r)
eval_simd_neq(l, r) == 255 - Simd8PartialEq_eq(l, r)

\* l.eq(r)
eval_simd(l, r) == Simd8PartialEq_eq(l, r)

\* the bytes of the model: 'A', 'a', 'b'
Bytes == {65, 97, 98}
\* the longest byte string drawn
MaxBytes == 3

ByteStrings == UNION {[1..n -> Bytes] : n \in 0..MaxBytes}

\* u8::to_ascii_lowercase on the bytes of the model
to_ascii_lowercase(b) == IF b = 65 THEN 97 ELSE b

\* a variant comparing without regard to ASCII case
eval_binary_ignore_case(l, r) ==
    /\ Len(l) = Len(r)
    /\ \A i \in 1..Len(l) : to_ascii_lowercase(l[i]) = to_ascii_lowercase(r[i])

\* l == r on &[u8]
eval_binary(l, r) == l = r

PathFrame == UNCHANGED <<catVars, dispVars, eqVars, visVars, schemaVars>>

PathReturn(p, v) ==
    /\ s_path' = p
    /\ s_res' = v
    /\ UNCHANGED <<s_L, s_R, s_M, s_l, s_r>>
    /\ PathFrame

EvalSimd ==
    /\ s_path = "call eval_simd"
    /\ PathReturn("eval_simd", eval_simd(s_l, s_r))

EvalPrimitive ==
    /\ s_path = "call eval_primitive"
    /\ PathReturn("eval_primitive", eval_primitive(s_L, s_R, s_M, s_l, s_r))

EvalBinary ==
    /\ s_path = "call eval_binary"
    /\ PathReturn("eval_binary", eval_binary(s_l, s_r))

\* two lane values of T: zero and T::MAX
LaneValues(ty) == {0, MaxOf(ty)}

\* the arguments of one call: two SIMD vectors of one type (any left
\* vector against itself, its lane-wise opposite and the constant vectors), two primitive values
\* with the three type parameters, or two byte strings
PathInit ==
    /\ s_res = FALSE
    /\ \/ /\ s_path = "call eval_simd"
          /\ s_L \in PrimitiveTypes
          /\ s_R = s_L
          /\ s_M = s_L
          /\ s_l \in [1..Lanes -> LaneValues(s_L)]
          /\ s_r \in {s_l,
                      [i \in 1..Lanes |-> IF s_l[i] = 0 THEN MaxOf(s_L) ELSE 0],
                      [i \in 1..Lanes |-> 0],
                      [i \in 1..Lanes |-> MaxOf(s_L)]}
       \/ /\ s_path = "call eval_primitive"
          /\ s_L \in PrimitiveTypes
          /\ s_R \in PrimitiveTypes
          /\ s_M \in PrimitiveTypes
          /\ s_l \in ValuesOf(s_L)
          /\ s_r \in ValuesOf(s_R)
       \/ /\ s_path = "call eval_binary"
          /\ s_L = "Binary"
          /\ s_R = "Binary"
          /\ s_M = "Binary"
          /\ s_l \in ByteStrings
          /\ s_r \in ByteStrings

PathIdle ==
    /\ s_path = "off"
    /\ s_L = "none"
    /\ s_R = "none"
    /\ s_M = "none"
    /\ s_l = 0
    /\ s_r = 0
    /\ s_res = FALSE

(***************************************************************************)
(* The plan visitor (plan_visitor.rs): PlanNode::accept driving a          *)
(* PlanVisitor over a plan.                                                *)
(***************************************************************************)
\* the most nodes a plan of the model has
MaxNodes == 4

\* a plan of n nodes, node 1 the root: each node's parent is an earlier node
Parents(n) == {p \in [2..n -> 1..n] : \A k \in 2..n : p[k] < k}

\* the nodes of set S in ascending order
Ascending(S) ==
    [i \in 1..Cardinality(S) |->
        CHOOSE k \in S : Cardinality({j \in S : j < k}) = i - 1]

\* each node's inputs, in order
Inputs(n, p) == [k \in 1..n |-> Ascending({c \in 2..n : p[c] = k})]

Plans == UNION {{Inputs(n, p) : p \in Parents(n)} : n \in 1..MaxNodes}

\* Result<bool, Self::Error> of pre_visit, post_visit and accept
VisitOk(b) == [tag |-> "Ok", val |-> b]
VisitErr == [tag |-> "Err", val |-> FALSE]
\* accept has not returned
Visiting == [tag |-> "running", val |-> FALSE]
\* a panic inside the visitor
VisitPanic == [tag |-> "panic", val |-> FALSE]

Visitors == {"IndentVisitor", "GraphvizVisitor", "any"}

\* what pre_visit may answer: the two printers answer Ok(true) unless a
\* write fails; the trait allows Ok(false) as well
PreAnswers(kind) ==
    IF kind = "any" THEN {VisitOk(TRUE), VisitOk(FALSE), VisitErr}
    ELSE {VisitOk(TRUE), VisitErr}

\* what post_visit may answer: the two printers always answer Ok(true),
\* after indent -= 1 or pop().unwrap().  The pop panics on an empty stack;
\* indent -= 1 at 0 panics in a build with overflow checks and wraps, then
\* answers Ok(true), in a build without them
PostAnswers(kind) ==
    CASE kind = "IndentVisitor" ->
            IF indent = 0 THEN {VisitPanic, VisitOk(TRUE)} ELSE {VisitOk(TRUE)}
      [] kind = "GraphvizVisitor" ->
            IF parent_ids = <<>> THEN {VisitPanic} ELSE {VisitOk(TRUE)}
      [] OTHER -> {VisitOk(TRUE), VisitOk(FALSE), VisitErr}

\* one call of the visitor, as v_log records it
VisitCall(c, n, a) == [call |-> c, node |-> n, ans |-> a]

VisFrame == UNCHANGED <<catVars, dispVars, eqVars, pathVars, schemaVars>>

Top == v_stack[Len(v_stack)]

\* a text is a sequence of pieces, each the double quote alone or free of
\* double quotes
Concat(pieces) ==
    LET RECURSIVE upto(_)
        upto(k) == IF k = 0 THEN "" ELSE upto(k - 1) \o pieces[k]
    IN  upto(Len(pieces))

\* the text of each node, by node number
NodeNames ==
    << <<"Projection: #id">>,
       <<"Filter: #state Eq Utf8(", "\"", "CO", "\"", ")">>,
       <<"CsvScan: employee.csv">>,
       <<"Limit: 10">>,
       <<"Sort: #id">> >>

\* plan.display(), written to f in one piece
display(n) == Concat(NodeNames[n])

\* format!("{}", display_schema(&plan.schema())): every node of the model
\* has the empty schema
schema_text == "[]"

\* display_schema's writes for the empty schema: write!(f, "["), write!(f, "]")
schema_writes == <<"[", "]">>

\* {} of a usize id
IdText(i) == <<"1", "2", "3", "4", "5", "6", "7", "8", "9">>[i]

\* u32::MAX, 4294967295: indent holds the 32 bits of the u32 and the model's
\* integers read the same bits as signed
U32Max == -1

\* indent - 1 without overflow checks
wrapping_sub_one(i) == IF i = 0 THEN U32Max ELSE i - 1

\* IndentVisitor::pre_visit's writes when none fails: the newline when
\* indent > 0, write_indent's indent times "  ", the node, then " " and the
\* schema's own writes
IndentWrites ==
    (IF indent # 0 THEN <<"\n">> ELSE <<>>)
        \o [i \in 1..indent |-> "  "]
        \o <<display(Top.node)>>
        \o (IF with_schema THEN <<" ">> \o schema_writes ELSE <<>>)

\* IndentVisitor::pre_visit answering a: the writes up to the one that
\* fails, if one does; indent += 1 after them all.  The 4294967295 writes of
\* write_indent at a wrapped indent are beyond the model
IndentPreVisit(a) ==
    /\ indent \in 0..MaxNodes
    /\ \E j \in 0..Len(IndentWrites) :
        /\ (a = VisitOk(TRUE)) <=> (j = Len(IndentWrites))
        /\ v_f' = v_f \o SubSeq(IndentWrites, 1, j)
    /\ indent' = IF a = VisitOk(TRUE) THEN indent + 1 ELSE indent

\* a variant that leaves indent as it is, as the trait's default post_visit
\* would
IndentPostVisitDefault(a) == UNCHANGED <<indent, v_f>>

\* IndentVisitor::post_visit: indent -= 1; a panic leaves indent as it was
IndentPostVisit(a) ==
    /\ indent' = IF a = VisitOk(TRUE) THEN wrapping_sub_one(indent) ELSE indent
    /\ UNCHANGED v_f

\* label.replace('"', "_")
replace_quote(label) ==
    [i \in DOMAIN label |-> IF label[i] = "\"" THEN "_" ELSE label[i]]

\* GraphvizBuilder::quoted
quoted(label) == "\"" \o Concat(replace_quote(label)) \o "\""

\* the label of GraphvizVisitor::pre_visit for node n
NodeLabel(n) ==
    IF with_schema
    THEN NodeNames[n] \o <<"\\nSchema: ", schema_text>>
    ELSE NodeNames[n]

\* GraphvizVisitor::pre_visit's writes for the node given id when none
\* fails: the node's line, then the edge from the innermost parent if there
\* is one; a line reaches f as its literal pieces and its arguments in turn
GraphvizWrites(id) ==
    <<"    ", IdText(id), "[shape=box label=", quoted(NodeLabel(Top.node)),
      "]\n">>
    \o (IF parent_ids # <<>>
        THEN <<"    ", IdText(parent_ids[Len(parent_ids)]), " -> ",
               IdText(id),
               " [arrowhead=none, arrowtail=normal, dir=back]\n">>
        ELSE <<>>)

\* a variant that pushes the id before it writes
GraphvizPreVisitPushFirst(a) ==
    /\ \E j \in 0..Len(GraphvizWrites(id_gen + 1)) :
        /\ (a = VisitOk(TRUE)) <=> (j = Len(GraphvizWrites(id_gen + 1)))
        /\ v_f' = v_f \o SubSeq(GraphvizWrites(id_gen + 1), 1, j)
    /\ id_gen' = id_gen + 1
    /\ parent_ids' = Append(parent_ids, id_gen + 1)

\* GraphvizVisitor::pre_visit answering a: next_id(), the writes up to the
\* one that fails, if one does, then parent_ids.push(id)
GraphvizPreVisit(a) ==
    /\ \E j \in 0..Len(GraphvizWrites(id_gen + 1)) :
        /\ (a = VisitOk(TRUE)) <=> (j = Len(GraphvizWrites(id_gen + 1)))
        /\ v_f' = v_f \o SubSeq(GraphvizWrites(id_gen + 1), 1, j)
    /\ id_gen' = id_gen + 1
    /\ parent_ids' = IF a = VisitOk(TRUE)
                     THEN Append(parent_ids, id_gen + 1) ELSE parent_ids

\* GraphvizVisitor::post_visit: parent_ids.pop().unwrap()
GraphvizPostVisit(a) ==
    /\ parent_ids' = IF a = VisitOk(TRUE)
                     THEN SubSeq(parent_ids, 1, Len(parent_ids) - 1)
                     ELSE parent_ids
    /\ UNCHANGED <<id_gen, v_f>>

\* the visitor's own fields after pre_visit answered a
PreVisitFields(a) ==
    CASE v_kind = "IndentVisitor" ->
            IndentPreVisit(a) /\ UNCHANGED <<parent_ids, id_gen>>
      [] v_kind = "GraphvizVisitor" ->
            GraphvizPreVisit(a) /\ UNCHANGED indent
      [] OTHER -> UNCHANGED <<indent, parent_ids, id_gen, v_f>>

\* the visitor's own fields after post_visit answered a
PostVisitFields(a) ==
    CASE v_kind = "IndentVisitor" ->
            IndentPostVisit(a) /\ UNCHANGED <<parent_ids, id_gen>>
      [] v_kind = "GraphvizVisitor" ->
            GraphvizPostVisit(a) /\ UNCHANGED indent
      [] OTHER -> UNCHANGED <<indent, parent_ids, id_gen, v_f>>

\* the titles a caller gives the cluster
Titles == {<<"LogicalPlan">>, <<"Plan ", "\"", "q1", "\"">>}

\* one call of pre_visit_plan or post_visit_plan, as v_plan records it
PlanCall(c, ok) == [call |-> c, ok |-> ok]

\* GraphvizBuilder::start_cluster's writes when none fails
start_cluster(id, title) ==
    <<"  subgraph cluster_", IdText(id), "\n",
      "  {\n",
      "    graph[label=", quoted(title), "]\n">>

\* GraphvizBuilder::end_cluster's write
end_cluster == <<"  }\n">>

\* GraphvizVisitor::set_with_schema(with_schema): the caller may call it at
\* any time, between the visitor's calls as well
GraphvizSetWithSchema(b) ==
    /\ v_kind = "GraphvizVisitor"
    /\ v_at \in {"pre", "in", "done"}
    /\ with_schema' = b
    /\ UNCHANGED <<v_kind, v_tree, v_stack, v_at, v_log, v_ret, indent,
                   parent_ids, id_gen, v_f, v_plan>>
    /\ VisFrame

\* GraphvizVisitor::pre_visit_plan(label), called before the traversal:
\* next_id(), then the writes up to the one that fails, if one does
GraphvizPreVisitPlan(title, ok) ==
    /\ v_kind = "GraphvizVisitor"
    /\ v_at = "pre"
    /\ v_log = <<>>
    /\ v_plan = <<>>
    /\ \E j \in 0..Len(start_cluster(id_gen + 1, title)) :
        /\ ok <=> (j = Len(start_cluster(id_gen + 1, title)))
        /\ v_f' = v_f \o SubSeq(start_cluster(id_gen + 1, title), 1, j)
    /\ id_gen' = id_gen + 1
    /\ v_plan' = Append(v_plan, PlanCall("pre_visit_plan", ok))
    /\ UNCHANGED <<v_kind, v_tree, v_stack, v_at, v_log, v_ret, indent,
                   parent_ids, with_schema>>
    /\ VisFrame

\* GraphvizVisitor::post_visit_plan, called after the traversal
GraphvizPostVisitPlan(ok) ==
    /\ v_kind = "GraphvizVisitor"
    /\ v_at = "done"
    /\ \A i \in DOMAIN v_plan : v_plan[i].call # "post_visit_plan"
    /\ v_f' = IF ok THEN v_f \o end_cluster ELSE v_f
    /\ v_plan' = Append(v_plan, PlanCall("post_visit_plan", ok))
    /\ UNCHANGED <<v_kind, v_tree, v_stack, v_at, v_log, v_ret, indent,
                   parent_ids, id_gen, with_schema>>
    /\ VisFrame

\* a variant of the stop that gives up the node's remaining inputs only: the
\* accept calls in progress above it go on
StopInnermost(a) ==
    IF Len(v_stack) = 1
    THEN /\ v_stack' = <<>>
         /\ v_at' = "done"
         /\ v_ret' = a
    ELSE /\ v_stack' = SubSeq(v_stack, 1, Len(v_stack) - 1)
         /\ v_at' = "in"
         /\ v_ret' = v_ret

\* the recursion stops immediately: every accept in progress returns, the
\* outermost with Ok(false) or the error
Stop(a) ==
    /\ v_stack' = <<>>
    /\ v_at' = "done"
    /\ v_ret' = a

\* accept on the innermost node calls pre_visit
AcceptPreVisit(a) ==
    /\ v_at = "pre"
    /\ a \in PreAnswers(v_kind)
    /\ v_log' = Append(v_log, VisitCall("pre_visit", Top.node, a))
    /\ PreVisitFields(a)
    /\ IF a = VisitOk(TRUE)
       THEN /\ v_at' = "in"
            /\ UNCHANGED <<v_stack, v_ret>>
       ELSE Stop(a)
    /\ UNCHANGED <<v_kind, v_tree, with_schema, v_plan>>
    /\ VisFrame

\* accept calls accept on the node's next input
AcceptInput ==
    /\ v_at = "in"
    /\ Top.visited < Len(v_tree[Top.node])
    /\ v_stack' = Append([v_stack EXCEPT ![Len(v_stack)].visited = @ + 1],
                         [node |-> v_tree[Top.node][Top.visited + 1],
                          visited |-> 0])
    /\ v_at' = "pre"
    /\ UNCHANGED <<v_kind, v_tree, v_log, v_ret, indent, parent_ids, id_gen,
                   with_schema, v_f, v_plan>>
    /\ VisFrame

\* all inputs accepted: accept calls post_visit and returns
AcceptPostVisit(a) ==
    /\ v_at = "in"
    /\ Top.visited = Len(v_tree[Top.node])
    /\ a \in PostAnswers(v_kind)
    /\ v_log' = Append(v_log, VisitCall("post_visit", Top.node, a))
    /\ PostVisitFields(a)
    /\ IF a = VisitOk(TRUE)
       THEN /\ v_stack' = SubSeq(v_stack, 1, Len(v_stack) - 1)
            /\ v_at' = IF Len(v_stack) = 1 THEN "done" ELSE "in"
            /\ v_ret' = IF Len(v_stack) = 1 THEN VisitOk(TRUE) ELSE v_ret
       ELSE Stop(a)
    /\ UNCHANGED <<v_kind, v_tree, with_schema, v_plan>>
    /\ VisFrame

\* a fresh visitor and the plan it is about to walk: IndentVisitor::new
\* takes with_schema, GraphvizVisitor::new sets it to false
VisInit ==
    /\ v_kind \in Visitors
    /\ v_tree \in Plans
    /\ v_stack = <<[node |-> 1, visited |-> 0]>>
    /\ v_at = "pre"
    /\ v_log = <<>>
    /\ v_ret = Visiting
    /\ indent = 0
    /\ parent_ids = <<>>
    /\ id_gen = 0
    /\ with_schema \in (IF v_kind = "IndentVisitor" THEN BOOLEAN ELSE {FALSE})
    /\ v_f = <<>>
    /\ v_plan = <<>>

VisIdle ==
    /\ v_kind = "none"
    /\ v_tree = <<>>
    /\ v_stack = <<>>
    /\ v_at = "off"
    /\ v_log = <<>>
    /\ v_ret = Visiting
    /\ indent = 0
    /\ parent_ids = <<>>
    /\ id_gen = 0
    /\ with_schema = FALSE
    /\ v_f = <<>>
    /\ v_plan = <<>>

(***************************************************************************)
(* display_schema (plan_visitor.rs).                                       *)
(***************************************************************************)
\* the most fields a schema of the model has
MaxFields == 3

\* Field::new(name, data_type, nullable)
Field(n, dt, nl) == [name |-> n, data_type |-> dt, nullable |-> nl]

FieldNames == {"id", "first_name"}
FieldTypes == {"DataType::Int32", "DataType::Utf8"}
Fields == {Field(n, dt, nl) : n \in FieldNames, dt \in FieldTypes, nl \in BOOLEAN}
Schemas == UNION {[1..n -> Fields] : n \in 0..MaxFields}

\* {:?} of a DataType: the name of the variant
DebugFmt(dt) ==
    CASE dt = "DataType::Int32" -> "Int32"
      [] dt = "DataType::Utf8" -> "Utf8"

\* let nullable_str = if field.is_nullable() { ";N" } else { "" }
nullable_str(field) == IF field.nullable THEN ";N" ELSE ""

\* a variant writing the separator before every field
separator_before_each(idx) == ", "

\* if idx > 0 { write!(f, ", ") }, idx counted from 0
separator(idx) == IF idx > 0 THEN ", " ELSE ""

\* write!(f, "{}:{:?}{}", field.name(), field.data_type(), nullable_str)
write_field(field) ==
    field.name \o ":" \o DebugFmt(field.data_type) \o nullable_str(field)

SchemaFrame == UNCHANGED <<catVars, dispVars, eqVars, pathVars, visVars>>

\* write!(f, "[")
DisplayOpen ==
    /\ sc_idx = -1
    /\ sc_out' = sc_out \o "["
    /\ sc_idx' = 0
    /\ UNCHANGED sc_schema
    /\ SchemaFrame

\* one turn of the loop over the fields
DisplayField ==
    /\ sc_idx >= 0
    /\ sc_idx < Len(sc_schema)
    /\ sc_out' = sc_out \o separator(sc_idx) \o write_field(sc_schema[sc_idx + 1])
    /\ sc_idx' = sc_idx + 1
    /\ UNCHANGED sc_schema
    /\ SchemaFrame

\* write!(f, "]")
DisplayClose ==
    /\ sc_idx = Len(sc_schema)
    /\ sc_out' = sc_out \o "]"
    /\ sc_idx' = Len(sc_schema) + 1
    /\ UNCHANGED sc_schema
    /\ SchemaFrame

\* format!("{}", display_schema(&schema)) begins
SchemaInit ==
    /\ sc_schema \in Schemas
    /\ sc_idx = -1
    /\ sc_out = ""

SchemaIdle ==
    /\ sc_schema = <<>>
    /\ sc_idx = -2
    /\ sc_out = ""

(***************************************************************************)
(* The catalog's specification.                                            *)
(***************************************************************************)
\* DatabaseCatalog::try_create_with_config: empty maps; the store may hold
\* databases already
CatInit ==
    /\ nclients \in Threads
    /\ store_address \in BOOLEAN
    /\ databases = EmptyMap
    /\ table_functions = {}
    /\ backendDbs \in SUBSET DbNames
    /\ dbWriter = 0
    /\ dbReaders = {}
    /\ pc = [t \in Threads |-> "idle"]
    /\ arg = [t \in Threads |-> NoCall]
    /\ out = NoOut
    /\ prev = NoOut
    /\ snap = [dbs |-> EmptyMap, be |-> {}, tfs |-> {}]
    /\ tfWriter = 0
    /\ tfReaders = {}
    /\ gat = [t \in Threads |-> NoLocals]

\* the catalog at rest, for the specifications of the other components
CatInitIdle ==
    /\ nclients = 1
    /\ store_address = FALSE
    /\ databases = EmptyMap
    /\ table_functions = {}
    /\ backendDbs = {}
    /\ dbWriter = 0
    /\ dbReaders = {}
    /\ pc = [t \in Threads |-> "idle"]
    /\ arg = [t \in Threads |-> NoCall]
    /\ out = NoOut
    /\ prev = NoOut
    /\ snap = [dbs |-> EmptyMap, be |-> {}, tfs |-> {}]
    /\ tfWriter = 0
    /\ tfReaders = {}
    /\ gat = [t \in Threads |-> NoLocals]

Init == CatInit /\ DispIdle /\ EqIdle /\ PathIdle /\ VisIdle /\ SchemaIdle

Next ==
    \E t \in Threads :
        \/ \E n \in DbNames : GetDatabaseLock(t, n)
        \/ GetDatabaseReturn(t)
        \/ \E n \in DbNames, l \in BOOLEAN, tf \in FuncAnswers : RegisterLock(t, n, l, tf)
        \/ RegisterInsertDatabase(t)
        \/ RegisterFuncLock(t)
        \/ RegisterFuncInsert(t)
        \/ RegisterReturn(t)
        \/ \E n \in DbNames, ine \in BOOLEAN, e \in Engines : CreateLock(t, n, ine, e)
        \/ CreateCheck(t)
        \/ CreateAcquireWrite(t)
        \/ CreateInsert(t)
        \/ CreateRemote(t)
        \/ \E n \in DbNames, ie \in BOOLEAN : DropLock(t, n, ie)
        \/ DropResolve(t)
        \/ DropAcquireWrite(t)
        \/ DropRemove(t)
        \/ DropRemote(t)

Spec == Init /\ [][Next]_vars

(***************************************************************************)
(* The catalog with all its operations and both of its locks.              *)
(***************************************************************************)
\* what thread t can do next inside the call it is in
Continue(t) ==
    \/ GetDatabaseReturn(t)
    \/ RegisterInsertDatabase(t)
    \/ RegisterFuncLock(t)
    \/ RegisterFuncInsert(t)
    \/ RegisterReturn(t)
    \/ GetTableFunctionReturn(t)
    \/ \E ok \in BOOLEAN : GetDatabasesReturn(t, ok)
    \/ \E ok \in BOOLEAN : GetAllTablesLocal(t, ok)
    \/ \E ok \in BOOLEAN : GetAllTablesRemote(t, ok)
    \/ CreateCheck(t)
    \/ CreateAcquireWrite(t)
    \/ CreateInsert(t)
    \/ CreateRemote(t)
    \/ DropResolve(t)
    \/ DropAcquireWrite(t)
    \/ DropRemove(t)
    \/ DropRemote(t)

LocksInit ==
    /\ CatInit
    /\ nclients = 2
    /\ DispIdle /\ EqIdle /\ PathIdle /\ VisIdle /\ SchemaIdle

LocksNext ==
    \E t \in Threads :
        \/ \E n \in DbNames : GetDatabaseLock(t, n)
        \/ \E n \in DbNames, l \in BOOLEAN, tf \in FuncAnswers : RegisterLock(t, n, l, tf)
        \/ \E n \in TableFuncNames : GetTableFunctionLock(t, n)
        \/ GetDatabasesLock(t)
        \/ GetAllTablesLock(t)
        \/ \E n \in DbNames, ine \in BOOLEAN, e \in Engines : CreateLock(t, n, ine, e)
        \/ \E n \in DbNames, ie \in BOOLEAN : DropLock(t, n, ie)
        \/ Continue(t)

SpecLocks == LocksInit /\ [][LocksNext]_vars

(***************************************************************************)
(* The dispatch's specification: one macro expansion on one column.        *)
(***************************************************************************)
DispatchInit ==
    CatInitIdle /\ DispInit /\ EqIdle /\ PathIdle /\ VisIdle /\ SchemaIdle

DispatchNext ==
    \/ DispatchPhysicalType
    \/ DispatchCast
    \/ DispatchApply
    \/ DispatchRestore

SpecDispatch == DispatchInit /\ [][DispatchNext]_vars

(***************************************************************************)
(* Boolean equality's specification: one call on drawn operands.           *)
(***************************************************************************)
BoolEqInit ==
    CatInitIdle /\ DispIdle /\ EqInit /\ PathIdle /\ VisIdle /\ SchemaIdle

BoolEqNext ==
    \/ EqVectorVector
    \/ EqVectorConst
    \/ EqConstVector

SpecBoolEq == BoolEqInit /\ [][BoolEqNext]_vars

(***************************************************************************)
(* Equality's specification: one call of one entry point, on Boolean       *)
(* columns or on scalar values.                                            *)
(***************************************************************************)
EqPathsInit ==
    /\ CatInitIdle
    /\ DispIdle
    /\ VisIdle
    /\ SchemaIdle
    /\ \/ EqInit /\ PathIdle
       \/ EqIdle /\ PathInit

EqPathsNext ==
    \/ EqVectorVector
    \/ EqVectorConst
    \/ EqConstVector
    \/ EvalSimd
    \/ EvalPrimitive
    \/ EvalBinary

SpecEqPaths == EqPathsInit /\ [][EqPathsNext]_vars

(***************************************************************************)
(* The visitor's specification: one traversal of one plan.                 *)
(***************************************************************************)
VisitInit ==
    CatInitIdle /\ DispIdle /\ EqIdle /\ PathIdle /\ VisInit /\ SchemaIdle

VisitNext ==
    \/ \E a \in {VisitOk(TRUE), VisitOk(FALSE), VisitErr} : AcceptPreVisit(a)
    \/ AcceptInput
    \/ \E a \in {VisitOk(TRUE), VisitOk(FALSE), VisitErr, VisitPanic} :
          AcceptPostVisit(a)
    \/ \E title \in Titles, ok \in BOOLEAN : GraphvizPreVisitPlan(title, ok)
    \/ \E ok \in BOOLEAN : GraphvizPostVisitPlan(ok)
    \/ \E b \in BOOLEAN : GraphvizSetWithSchema(b)

SpecVisit == VisitInit /\ [][VisitNext]_vars

(***************************************************************************)
(* display_schema's specification: one schema formatted.                   *)
(***************************************************************************)
DisplayInit ==
    CatInitIdle /\ DispIdle /\ EqIdle /\ PathIdle /\ VisIdle /\ SchemaInit

DisplayNext ==
    \/ DisplayOpen
    \/ DisplayField
    \/ DisplayClose

SpecDisplay == DisplayInit /\ [][DisplayNext]_vars

(***************************************************************************)
(* Properties of the catalog, checked under Spec.                          *)
(***************************************************************************)
\* the last step was the return of a call of operation o
JustReturned(o) == out.t # 0 /\ out.call.op = o

\* a single client made the same call twice in a row: prev and out are the
\* two returns, snap is the catalog between them
SameCallTwice(o) ==
    /\ Single
    /\ JustReturned(o)
    /\ prev.t # 0
    /\ prev.call = out.call

\* a single client called create_database twice in a row on one name with
\* one value of if_not_exists, whatever the engines: prev and out are the two
\* returns, snap is the catalog between them
CreateTwice ==
    /\ Single
    /\ JustReturned("create_database")
    /\ prev.t # 0
    /\ prev.call.op = "create_database"
    /\ prev.call.db = out.call.db
    /\ prev.call.flag = out.call.flag

\* the one pair of calls whose second call passes the check of the local
\* map: the first went to the remote store, the second is Local, and the
\* local map does not hold the name
RemoteThenLocal ==
    /\ prev.call.engine = "Remote"
    /\ out.call.engine = "Local"
    /\ out.call.db \notin DOMAIN snap.dbs

\* C1 (amended): create_database called twice in sequence on the same name:
\* with if_not_exists = false the second call fails and leaves the catalog
\* as the first call left it, except when the first call's engine is Remote,
\* the second's is Local and the local map does not hold the name: then the
\* second call stores the database in the local map and returns Ok; with
\* if_not_exists = true both calls return Ok, whatever the engines.
C1_CreateTwice ==
    CreateTwice =>
        IF out.call.flag
        THEN prev.ret.tag = "Ok" /\ out.ret.tag = "Ok"
        ELSE IF RemoteThenLocal
             THEN /\ out.ret.tag = "Ok"
                  /\ out.call.db \in DOMAIN databases
                  /\ backendDbs = snap.be
             ELSE out.ret.tag = "Err" /\ Catalog = snap

\* C1 as first stated: any two create_database calls in sequence on the same
\* name with if_not_exists = false, whatever their engines: the second fails.
C1_AnyEngines ==
    (/\ Single
     /\ JustReturned("create_database")
     /\ prev.t # 0
     /\ prev.call.op = "create_database"
     /\ prev.call.db = out.call.db
     /\ ~prev.call.flag
     /\ ~out.call.flag)
    => (out.ret.tag = "Err" /\ Catalog = snap)

\* engines mixed the other way: the Local create stored the database, the
\* Remote create of the same name was refused at the check of the local map
C1_Witness ==
    /\ CreateTwice
    /\ ~out.call.flag
    /\ prev.call.engine = "Local"
    /\ out.call.engine = "Remote"
    /\ prev.ret.tag = "Ok"
    /\ out.ret.tag = "Err"
    /\ out.call.db \in DOMAIN databases
    /\ out.call.db \notin backendDbs

\* thread t leaves position p in this step
Leaves(t, p) == pc[t] = p /\ pc'[t] # p

\* C2: drop_database on a name get_database cannot resolve returns Ok when
\* if_exists is set and an UnknownDatabase error when it is not, and changes
\* neither the local map nor the backend; dropping the same database twice
\* with if_exists = true returns Ok both times.
C2_DropIdempotent ==
    /\ [][\A t \in Threads :
            (/\ Leaves(t, "drop_r")
             /\ get_database(databases, backendDbs, store_address, arg[t].db).tag = "Err")
            => /\ out'.t = t
               /\ out'.ret = (IF arg[t].flag THEN OkUnit ELSE Err("UnknownDatabase"))
               /\ databases' = databases
               /\ backendDbs' = backendDbs]_vars
    /\ []((SameCallTwice("drop_database") /\ out.call.flag)
            => (prev.ret.tag = "Ok" /\ out.ret.tag = "Ok"))

\* the same drop twice with if_exists: the second found no database of that
\* name (a store is configured and holds none either), changed nothing and
\* returned Ok like the first
C2_Witness ==
    /\ SameCallTwice("drop_database")
    /\ out.call.flag
    /\ store_address
    /\ get_database(snap.dbs, snap.be, store_address, out.call.db).tag = "Err"
    /\ prev.ret.tag = "Ok"
    /\ out.ret.tag = "Ok"
    /\ Catalog = snap

\* C3: get_database returns the handle of the local map when the name is
\* one of its keys, else the backend's answer when a store address is
\* configured, else an UnknownDatabase error; no step of it changes the
\* catalog.
C3_GetDatabase ==
    [][\A t \in Threads :
        /\ (Leaves(t, "get_r")
            => /\ out'.t = t
               /\ out'.call = arg[t]
               /\ out'.ret =
                    (IF \E k \in DOMAIN databases : k = arg[t].db
                     THEN Ok(databases[arg[t].db])
                     ELSE IF store_address
                     THEN backend_get_database(backendDbs, arg[t].db)
                     ELSE Err("UnknownDatabase")))
        /\ ((pc'[t] # pc[t] /\ "get_database" \in {arg[t].op, arg'[t].op})
            => Catalog' = Catalog)]_vars

\* a lookup answered from the local map although the store holds a database
\* of that name too
C3_Witness ==
    /\ JustReturned("get_database")
    /\ store_address
    /\ out.call.db \in backendDbs
    /\ out.call.db \in DOMAIN databases
    /\ out.ret = Ok(databases[out.call.db])
    /\ out.ret.val.kind # "remote"

\* the positions at which a thread holds the write / the read lock
\* where a thread is about to change the local map
MutatingPositions == {"reg_w", "create_w", "drop_w"}
\* where a thread holds the write lock: register_database keeps db_lock
\* while it takes and uses the lock of table_functions
WritePositions == MutatingPositions \cup {"reg_tf", "reg_tfw", "reg_ret"}
ReadPositions == {"get_r", "create_r", "drop_r"}

\* C4: every change of the local map is made by a thread that holds the
\* write lock while no other thread holds the read or the write lock; the
\* read lock may be held by several lookups at once (the witness).
C4_WritesExclusive ==
    /\ [](\A t \in Threads :
            /\ (pc[t] \in WritePositions <=> dbWriter = t)
            /\ (pc[t] \in ReadPositions <=> t \in dbReaders)
            /\ (dbWriter = t => dbReaders = {}))
    /\ [][databases' # databases =>
            \E t \in Threads :
                /\ pc[t] \in MutatingPositions
                /\ pc'[t] # pc[t]
                /\ dbWriter = t
                /\ dbReaders = {}
                /\ \A u \in Threads \ {t} :
                       pc[u] \notin (WritePositions \cup ReadPositions)]_vars

\* two lookups hold the read lock together, on a map a writer has changed
C4_Witness ==
    /\ Cardinality(dbReaders) = 2
    /\ dbWriter = 0
    /\ DOMAIN databases # {}
    /\ \A t \in Threads : pc[t] \in ReadPositions

\* C5: while create_database (Remote engine) or drop_database (non-local
\* database) is at its backend call the thread holds no lock on the local
\* map; the backend call (and every step of a Remote create_database) leaves
\* the local map unchanged, and the call returns the backend's result.
C5_RemoteOutsideLock ==
    /\ [](\A t \in Threads :
            pc[t] \in {"create_remote", "drop_remote"}
                => (t \notin dbReaders /\ dbWriter # t))
    /\ [][\A t \in Threads :
            /\ ((/\ pc'[t] # pc[t]
                 /\ \E c \in {arg[t], arg'[t]} :
                        c.op = "create_database" /\ c.engine = "Remote")
                => databases' = databases)
            /\ (Leaves(t, "create_remote")
                => /\ databases' = databases
                   /\ out'.t = t
                   /\ out'.ret = backend_create_result(backendDbs, arg[t]))
            /\ (Leaves(t, "drop_remote")
                => /\ databases' = databases
                   /\ out'.t = t
                   /\ out'.ret = backend_drop_result(backendDbs, arg[t]))]_vars

\* a Remote create_database returned the store's refusal while the other
\* thread held the write lock
C5_Witness ==
    /\ JustReturned("create_database")
    /\ out.call.engine = "Remote"
    /\ out.ret = Err("DatabaseAlreadyExists")
    /\ dbWriter \notin {0, out.t}

(***************************************************************************)
(* Properties of the physical-type dispatch, checked under SpecDispatch.   *)
(***************************************************************************)
\* the mapping as the specification words it, every other type to itself
physical_of(dt) ==
    CASE dt = Plain("Date32") -> Int32
      [] dt = DT("Interval", "YearMonth", "") -> Int32
      [] dt = Plain("Date64") -> Int64
      [] dt = DT("Interval", "DayTime", "") -> Int64
      [] dt.tag = "Timestamp" -> Int64
      [] OTHER -> dt

\* physical_type has been evaluated
PhysicalTypeTaken == d_pc \notin {"off", "start"}

\* C6 as first stated: physical_of is total; a type that is none of Date32,
\* Date64, Timestamp, Interval maps to itself.
C6_PhysicalOfTotal ==
    PhysicalTypeTaken =>
        (d_ret # Panic("already a physical type") /\ d_phys = physical_of(d_type))

\* C6 (amended): physical_type maps Date32 and Interval(YearMonth) to Int32,
\* Date64, every Timestamp(unit, tz) and Interval(DayTime) to Int64, and
\* panics on every other logical type instead of returning it.
C6_PhysicalOf ==
    PhysicalTypeTaken =>
        IF d_type \in TemporalTypes
        THEN d_phys = physical_of(d_type) /\ d_phys \in {Int32, Int64}
        ELSE d_phys = NoType /\ d_ret = Panic("already a physical type")

\* an Interval(YearMonth) column found to be Int32
C6_Witness ==
    /\ d_type = DT("Interval", "YearMonth", "")
    /\ d_pc = "cast"
    /\ d_phys = Int32

\* C7: physical_type on a column whose type is already physical panics: it
\* returns no type, and the macro neither casts nor applies the operation.
C7_PhysicalFailsFast ==
    (PhysicalTypeTaken /\ d_type.tag \notin {"Date32", "Date64", "Timestamp", "Interval"})
    => /\ d_pc = "done"
       /\ d_ret.kind = "panic"
       /\ d_phys = NoType
       /\ d_casts = 0
       /\ d_applied = NoType
       /\ d_opres = Running
       /\ d_s = d_type

\* try_physical_dispatch on an Int32 column ended in the panic
C7_Witness ==
    /\ d_variant = "try_physical_dispatch"
    /\ d_type = Int32
    /\ d_pc = "done"
    /\ d_ret.kind = "panic"

\* the three variants that restore the logical type
Dispatching == {"physical_dispatch", "try_physical_dispatch", "opt_physical_dispatch"}

\* C8: under each dispatching variant, on a temporal column of type L with
\* P = physical_of(L), the operation is applied to the column cast to P; a
\* returned column has type L when the operation's result has type P, and
\* is the operation's result with its own type otherwise.
C8_RestoreOrPassThrough ==
    (/\ d_variant \in Dispatching
     /\ d_pc = "done"
     /\ d_ret.kind \in {"value", "Ok", "Some"})
    => /\ d_type \in TemporalTypes
       /\ d_applied = physical_of(d_type)
       /\ d_opres.kind = "value"
       /\ d_ret.type = (IF d_opres.type = physical_of(d_type)
                        THEN d_type ELSE d_opres.type)

\* add_to on a Date32 column, computed on Int32, returned as Date32
C8_Witness ==
    /\ d_variant = "try_physical_dispatch"
    /\ d_type = Plain("Date32")
    /\ d_applied = Int32
    /\ d_opres = Outcome("value", Int32, "")
    /\ d_ret = Outcome("Ok", Plain("Date32"), "")

\* C9: a failed cast to the physical type (step 1) or back to the logical
\* type (step 3) is returned to the caller as a typed error, never as a
\* panic or a success.
C9_CastFailureReturned ==
    d_fail # "none" => (d_pc = "done" /\ d_ret = Outcome("Err", NoType, "UnsupportedCast"))

(***************************************************************************)
(* Properties of Boolean equality, checked under SpecBoolEq.               *)
(***************************************************************************)
\* C10: vector_vector row i is NOT(a[i] XOR b[i]); vector_const(col, true)
\* is col and vector_const(col, false) its row-wise negation; the result has
\* as many rows as the vector operand.
C10_BooleanEq ==
    /\ e_op = "vector_vector" =>
        /\ Len(e_res) = Len(e_lhs)
        /\ \A i \in 1..Len(e_lhs) : e_res[i] = (e_lhs[i] = e_rhs[i])
    /\ e_op = "vector_const" =>
        /\ Len(e_res) = Len(e_lhs)
        /\ e_const => e_res = e_lhs
        /\ ~e_const => \A i \in 1..Len(e_lhs) : e_res[i] = ~e_lhs[i]
    /\ e_op = "const_vector" =>
        /\ Len(e_res) = Len(e_rhs)
        /\ e_const => e_res = e_rhs
        /\ ~e_const => \A i \in 1..Len(e_rhs) : e_res[i] = ~e_rhs[i]

\* eq([true, false], [true, true]) = [true, false]
C10_Witness ==
    /\ e_op = "vector_vector"
    /\ e_lhs = <<TRUE, FALSE>>
    /\ e_rhs = <<TRUE, TRUE>>
    /\ e_res = <<TRUE, FALSE>>


(***************************************************************************)
(* Properties of equality, checked under SpecEqPaths.                      *)
(***************************************************************************)
\* C11: eq is reflexive on every path: called on one operand twice, the
\* Boolean vector/vector entry answers true in every row, eval_simd answers
\* the mask with all eight lanes set, eval_primitive with L = R = M answers
\* true, and eval_binary answers true.
C11_Reflexive ==
    /\ (e_op = "vector_vector" /\ e_lhs = e_rhs) =>
        /\ Len(e_res) = Len(e_lhs)
        /\ \A i \in 1..Len(e_res) : e_res[i] = TRUE
    /\ (s_path = "eval_simd" /\ s_l = s_r) => s_res = 2 ^ Lanes - 1
    /\ (s_path = "eval_primitive" /\ s_L = s_R /\ s_M = s_L /\ s_l = s_r) =>
        s_res = TRUE
    /\ (s_path = "eval_binary" /\ s_l = s_r) => s_res = TRUE

\* eval_simd has compared a UInt8 vector of mixed lanes with itself
C11_Witness ==
    /\ s_path = "eval_simd"
    /\ s_L = "UInt8"
    /\ s_l = <<0, 255, 0, 255, 255, 0, 0, 255>>
    /\ s_r = s_l
    /\ s_res = 255

\* every value of type A is a value of type B
Lossless(A, B) == MinOf(B) <= MinOf(A) /\ MaxOf(A) <= MaxOf(B)

\* C12: when both L and R convert into M without loss, eval_primitive
\* answers true exactly when l and r are the same integer; no two distinct
\* integers compare equal through the conversion.
C12_Promotion ==
    (s_path = "eval_primitive" /\ Lossless(s_L, s_M) /\ Lossless(s_R, s_M)) =>
        s_res = (s_l = s_r)

\* Int8 -1 against UInt8 255 in Int16: the same low eight bits, not equal
C12_Witness ==
    /\ s_path = "eval_primitive"
    /\ s_L = "Int8"
    /\ s_R = "UInt8"
    /\ s_M = "Int16"
    /\ s_l = -1
    /\ s_r = 255
    /\ s_res = FALSE

\* C13: eval_binary answers true exactly when the two byte strings have one
\* length and the same byte at every position; bytes that differ only in
\* ASCII case differ.
C13_RawBytes ==
    s_path = "eval_binary" =>
        s_res = (/\ Len(s_l) = Len(s_r)
                 /\ \A i \in 1..Len(s_l) : s_l[i] = s_r[i])

\* "Abb" against "abb": not equal
C13_Witness ==
    /\ s_path = "eval_binary"
    /\ s_l = <<65, 98, 98>>
    /\ s_r = <<97, 98, 98>>
    /\ s_res = FALSE

(***************************************************************************)
(* Properties of the visitor, checked under SpecVisit.                     *)
(***************************************************************************)
RECURSIVE Walk(_, _), WalkInputs(_, _, _)
\* the calls of a complete depth-first walk below node n: pre_visit(n), the
\* walks of n's inputs in order, post_visit(n)
Walk(tree, n) ==
    <<[call |-> "pre_visit", node |-> n]>>
        \o WalkInputs(tree, tree[n], 1)
        \o <<[call |-> "post_visit", node |-> n]>>
WalkInputs(tree, cs, i) ==
    IF i > Len(cs) THEN <<>>
    ELSE Walk(tree, cs[i]) \o WalkInputs(tree, cs, i + 1)

\* the calls made so far, without their answers
CallsMade == [i \in 1..Len(v_log) |-> [call |-> v_log[i].call,
                                       node |-> v_log[i].node]]

\* C15: the visitor calls made are always a prefix of the complete
\* depth-first walk (pre_visit(n) before n's descendants, post_visit(n)
\* after them, properly nested); only the last call made can have answered
\* anything but Ok(true), and once it has, accept has returned that answer
\* (Ok(false) or the error) and no further call is made; accept returns
\* Ok(true) only after the complete walk.
C15_VisitorProtocol ==
    LET full == Walk(v_tree, 1)
        made == CallsMade
        n == Len(v_log)
    IN /\ n <= Len(full)
       /\ made = SubSeq(full, 1, n)
       /\ \A i \in 1..(n - 1) : v_log[i].ans = VisitOk(TRUE)
       /\ (n > 0 /\ v_log[n].ans # VisitOk(TRUE)) => v_ret = v_log[n].ans
       /\ v_ret = VisitOk(TRUE) => made = full
       /\ v_ret = Visiting => (n = 0 \/ v_log[n].ans = VisitOk(TRUE))

\* a plan of four nodes whose walk ended at the third call: pre_visit of a
\* node below the root's first input failed, and accept returned the error
C15_Witness ==
    /\ Len(v_tree) = 4
    /\ v_tree[1] = <<2, 4>>
    /\ v_tree[2] = <<3>>
    /\ Len(v_log) = 3
    /\ v_log[3] = VisitCall("pre_visit", 3, VisitErr)
    /\ v_ret = VisitErr
    /\ v_stack = <<>>

(***************************************************************************)
(* Properties of display_schema, checked under SpecDisplay.                *)
(***************************************************************************)
\* the schema has been written out
Displayed == sc_idx = Len(sc_schema) + 1

\* one field as the claim words it: name ':' type, then ';N' exactly when
\* the field is nullable
FieldText(field) ==
    IF field.nullable
    THEN field.name \o ":" \o DebugFmt(field.data_type) \o ";N"
    ELSE field.name \o ":" \o DebugFmt(field.data_type)

RECURSIVE JoinFrom(_, _)
\* the fields from position k on, joined by ', '
JoinFrom(fields, k) ==
    IF k > Len(fields) THEN ""
    ELSE IF k = Len(fields) THEN FieldText(fields[k])
    ELSE FieldText(fields[k]) \o ", " \o JoinFrom(fields, k + 1)

\* C16: the text display_schema writes is '[', the fields joined by ', ',
\* ']'; the empty schema gives "[]", and the schema of the test gives
\* "[id:Int32, first_name:Utf8;N]".
C16_DisplaySchema ==
    Displayed =>
        /\ sc_out = "[" \o JoinFrom(sc_schema, 1) \o "]"
        /\ sc_schema = <<>> => sc_out = "[]"
        /\ sc_schema = <<Field("id", "DataType::Int32", FALSE),
                         Field("first_name", "DataType::Utf8", TRUE)>> =>
            sc_out = "[id:Int32, first_name:Utf8;N]"

\* the schema of test_display_schema has been written out
C16_Witness ==
    /\ Displayed
    /\ sc_schema = <<Field("id", "DataType::Int32", FALSE),
                     Field("first_name", "DataType::Utf8", TRUE)>>
    /\ sc_out = "[id:Int32, first_name:Utf8;N]"

(***************************************************************************)
(* Further properties of the catalog, checked under Spec.                  *)
(***************************************************************************)
\* C17: concurrent create_database calls for one name (Local engine,
\* if_not_exists = false) succeed at most once: the check and the insert
\* act as one step, so when such a call inserts and returns Ok the map did
\* not already hold a database another create_database call had inserted
\* under that name.
C17_CreateAtomic ==
    [][\A t \in Threads :
        (/\ pc[t] = "create_w"
         /\ pc'[t] = "idle"
         /\ arg[t].engine = "Local"
         /\ ~arg[t].flag
         /\ out'.ret.tag = "Ok")
        => ~(/\ arg[t].db \in DOMAIN databases
             /\ databases[arg[t].db] = LocalDatabase)]_vars

\* C18: with one client, the call right after a successful
\* register_database([db]) finds db under db.name(): get_database returns
\* the registered database, and create_database without if_not_exists
\* reports that it exists already.
C18_RegisteredUnderName ==
    (/\ Single
     /\ prev.t # 0
     /\ prev.call.op = "register_database"
     /\ prev.ret.tag = "Ok"
     /\ out.t # 0
     /\ out.call.db = prev.call.db)
    => /\ out.call.op = "get_database" =>
            out.ret = Ok(Handle("registered", prev.call.db, prev.call.is_local))
       /\ (out.call.op = "create_database" /\ ~out.call.flag) =>
            out.ret = Err("UnknownDatabase")

(***************************************************************************)
(* Properties of the catalog with both locks, checked under SpecLocks.     *)
(***************************************************************************)
\* thread t is inside a call
InCall(t) == pc[t] # "idle"

\* thread t holds a guard of self.databases / of self.table_functions
HoldsDatabases(t) == dbWriter = t \/ t \in dbReaders
HoldsFunctions(t) == tfWriter = t \/ t \in tfReaders

\* C19: the threads never deadlock on the two locks: whenever some thread
\* is inside a call, some thread inside a call can take its next step; a
\* guard of table_functions is held together with a guard of databases only
\* as the write guard taken inside register_database's write guard, a thread
\* waiting for a lock holds no guard of that lock, and a thread that has
\* returned holds no guard.
C19_NoDeadlock ==
    /\ (\E t \in Threads : InCall(t)) =>
            \E t \in Threads : InCall(t) /\ ENABLED Continue(t)
    /\ \A t \in Threads :
        /\ ~InCall(t) => (~HoldsDatabases(t) /\ ~HoldsFunctions(t))
        /\ (HoldsFunctions(t) /\ HoldsDatabases(t)) =>
                (tfWriter = t /\ dbWriter = t /\ pc[t] = "reg_tfw")
        /\ pc[t] \in {"create_local", "drop_local"} => ~HoldsDatabases(t)
        /\ pc[t] = "reg_tf" => ~HoldsFunctions(t)
        /\ ~(dbWriter = t /\ t \in dbReaders)
        /\ ~(tfWriter = t /\ t \in tfReaders)

\* register_database, holding the write guard of databases, waits for
\* table_functions while get_table_function reads it
C19_Witness ==
    /\ pc[1] = "reg_tf"
    /\ dbWriter = 1
    /\ pc[2] = "gtf_r"
    /\ tfReaders = {2}
    /\ ~ENABLED Continue(1)
    /\ ENABLED Continue(2)

\* get_all_tables of thread t ends its loop over the local databases
LoopDone(t) == pc[t] = "gat_r" /\ pc'[t] = "gat_backend"

\* get_all_tables of thread t returns Ok
AllTablesReturned(t) ==
    /\ pc[t] \in {"gat_r", "gat_backend"}
    /\ pc'[t] = "idle"
    /\ out'.ret.tag = "Ok"

\* r is table tbl of the local database stored under k
IsLocalTable(r, dbs) ==
    \E k \in DOMAIN dbs : \E tbl \in get_tables(dbs[k]) : r = <<k, tbl>>

\* C20: get_all_tables collects exactly the tables of the local databases,
\* each paired with the key of its database; with a store address it returns
\* them together with exactly the backend's tables whose database name is
\* not a local key; without one it returns them alone and never reaches the
\* backend call.
C20_AllTables ==
    /\ [][\A t \in Threads :
            /\ LoopDone(t) =>
                /\ \A r \in gat'[t].results : IsLocalTable(r, databases)
                /\ \A k \in DOMAIN databases : \A tbl \in get_tables(databases[k]) :
                        <<k, tbl>> \in gat'[t].results
                /\ gat'[t].db_names = DOMAIN databases
            /\ (AllTablesReturned(t) /\ pc[t] = "gat_backend") =>
                /\ store_address
                /\ gat[t].results \subseteq out'.ret.val
                /\ \A r \in backend_get_all_tables(backendDbs) :
                        r \in out'.ret.val <=> r[1] \notin gat[t].db_names
                /\ \A r \in out'.ret.val :
                        \/ r \in gat[t].results
                        \/ r \in backend_get_all_tables(backendDbs)
            /\ (AllTablesReturned(t) /\ pc[t] = "gat_r") =>
                /\ ~store_address
                /\ \A r \in out'.ret.val : IsLocalTable(r, databases)
                /\ \A k \in DOMAIN databases : \A tbl \in get_tables(databases[k]) :
                        <<k, tbl>> \in out'.ret.val
       ]_vars
    /\ [](\A t \in Threads : pc[t] = "gat_backend" => store_address)

\* the store holds "db" and "Db", a database is registered under "db":
\* get_all_tables has returned the local table and the table of "Db" only
C20_Witness ==
    /\ JustReturned("get_all_tables")
    /\ out.ret.tag = "Ok"
    /\ store_address
    /\ backendDbs = {"db", "Db"}
    /\ DOMAIN databases = {"db"}
    /\ out.ret.val = {<<"db", TableMeta("db", "t1")>>,
                      <<"Db", TableMeta("Db", "remote")>>}

(***************************************************************************)
(* The effect of drop_database, checked under Spec.                        *)
(***************************************************************************)
\* what get_database answered to the drop_database call that has just
\* returned to the single client
DropResolved == get_database(snap.dbs, snap.be, store_address, out.call.db)

\* C21: drop_database on a name get_database resolves to a local database
\* removes that key from the local map and nothing else, leaves
\* table_functions and the backend as they are and returns Ok, and the name
\* no longer resolves to the local handle; on a database that is not local
\* it leaves the local map and table_functions as they are and returns the
\* answer of the backend's drop_database, whose effect is the only change.
\* Step by step for any two threads, and call by call for one client.
C21_DropEffect ==
    /\ [][\A t \in Threads :
            LET n == arg[t].db
                db == get_database(databases, backendDbs, store_address, n)
            IN /\ (Leaves(t, "drop_r") /\ db.tag = "Ok") =>
                    /\ pc'[t] = (IF db.val.is_local THEN "drop_local"
                                 ELSE "drop_remote")
                    /\ Catalog' = Catalog
               /\ Leaves(t, "drop_local") =>
                    (pc'[t] = "drop_w" /\ Catalog' = Catalog)
               /\ Leaves(t, "drop_w") =>
                    /\ DOMAIN databases' = DOMAIN databases \ {n}
                    /\ \A k \in DOMAIN databases' : databases'[k] = databases[k]
                    /\ table_functions' = table_functions
                    /\ backendDbs' = backendDbs
                    /\ out'.t = t
                    /\ out'.ret = OkUnit
               /\ Leaves(t, "drop_remote") =>
                    /\ databases' = databases
                    /\ table_functions' = table_functions
                    /\ out'.t = t
                    /\ out'.ret = backend_drop_result(backendDbs, arg[t])
                    /\ backendDbs' = (IF out'.ret.tag = "Ok"
                                      THEN backendDbs \ {n} ELSE backendDbs)
       ]_vars
    /\ []((Single /\ JustReturned("drop_database") /\ DropResolved.tag = "Ok") =>
            IF DropResolved.val.is_local
            THEN /\ out.ret = OkUnit
                 /\ DOMAIN databases = DOMAIN snap.dbs \ {out.call.db}
                 /\ \A k \in DOMAIN databases : databases[k] = snap.dbs[k]
                 /\ table_functions = snap.tfs
                 /\ backendDbs = snap.be
                 /\ get_database(databases, backendDbs, store_address,
                                 out.call.db) # DropResolved
            ELSE /\ databases = snap.dbs
                 /\ table_functions = snap.tfs
                 /\ out.ret = backend_drop_result(snap.be, out.call)
                 /\ backendDbs = (IF out.ret.tag = "Ok"
                                  THEN snap.be \ {out.call.db} ELSE snap.be))

\* a single client dropped the local database "Db" while the map also held
\* "db", a table function was registered and the store held "Db" as well:
\* only the key "Db" is gone
C21_Witness ==
    /\ Single
    /\ JustReturned("drop_database")
    /\ out.call.db = "Db"
    /\ out.ret = OkUnit
    /\ store_address
    /\ DOMAIN snap.dbs = {"db", "Db"}
    /\ snap.dbs["Db"].is_local
    /\ DOMAIN databases = {"db"}
    /\ databases["db"] = snap.dbs["db"]
    /\ table_functions = {TableFuncName}
    /\ backendDbs = {"Db"}
    /\ snap.be = {"Db"}

(***************************************************************************)
(* Properties of the two printing visitors, checked under SpecVisit.       *)
(***************************************************************************)
\* the node that has n among its inputs
ParentOf(tree, n) ==
    CHOOSE k \in DOMAIN tree : \E i \in DOMAIN tree[k] : tree[k][i] = n

RECURSIVE Depth(_, _)
\* how many nodes lie above n; the root has depth 0
Depth(tree, n) == IF n = 1 THEN 0 ELSE 1 + Depth(tree, ParentOf(tree, n))

\* the line of node n: a newline unless n is the root, two spaces for each
\* level of depth, the node, the schema when asked for, write by write
LineOf(n) ==
    (IF n = 1 THEN <<>> ELSE <<"\n">>)
        \o [i \in 1..Depth(v_tree, n) |-> "  "]
        \o <<Concat(NodeNames[n])>>
        \o (IF with_schema THEN <<" ", "[", "]">> ELSE <<>>)

RECURSIVE LinesWritten(_)
\* the lines of the nodes whose pre_visit succeeded among the first k calls
LinesWritten(k) ==
    IF k = 0 THEN <<>>
    ELSE IF v_log[k].call = "pre_visit" /\ v_log[k].ans = VisitOk(TRUE)
         THEN LinesWritten(k - 1) \o LineOf(v_log[k].node)
         ELSE LinesWritten(k - 1)

\* C22: in every traversal by IndentVisitor, when pre_visit is about to be
\* called indent is the depth of the node; what has been written is, for
\* each node visited so far, a newline (except before the root), two spaces
\* per level of depth and the node, followed, when a write failed, by the
\* part of the failing node's line written before the failure; indent is
\* never decremented below 0 (post_visit is never called with indent at 0,
\* so indent never wraps and post_visit never panics) and is 0 after a
\* complete traversal.
C22_Indent ==
    v_kind = "IndentVisitor" =>
        LET n == Len(v_log) IN
        /\ v_at = "pre" => indent = Depth(v_tree, Top.node)
        /\ (v_at = "in" /\ Top.visited = Len(v_tree[Top.node])) => indent > 0
        /\ indent \in 0..MaxNodes
        /\ v_ret # VisitPanic
        /\ v_ret = VisitOk(TRUE) => indent = 0
        /\ IF n > 0 /\ v_log[n].ans = VisitErr
           THEN \E j \in 0..(Len(LineOf(v_log[n].node)) - 1) :
                    v_f = LinesWritten(n - 1)
                            \o SubSeq(LineOf(v_log[n].node), 1, j)
           ELSE v_f = LinesWritten(n)

\* a chain of three nodes, with schema: the write of the second pair of
\* spaces before the third node failed
C22_Witness ==
    /\ v_kind = "IndentVisitor"
    /\ with_schema
    /\ v_tree = <<(<<2>>), (<<3>>), <<>>>>
    /\ Len(v_log) = 3
    /\ v_log[3] = VisitCall("pre_visit", 3, VisitErr)
    /\ v_ret = VisitErr
    /\ indent = 2
    /\ v_f = <<"Projection: #id", " ", "[", "]",
               "\n", "  ", "Filter: #state Eq Utf8(\"CO\")", " ", "[", "]",
               "\n", "  ">>

RECURSIVE PreCalls(_)
\* how many of the first k calls are calls of pre_visit
PreCalls(k) ==
    IF k = 0 THEN 0
    ELSE PreCalls(k - 1) + (IF v_log[k].call = "pre_visit" THEN 1 ELSE 0)

RECURSIVE OpenAfter(_, _)
\* after the first k calls, the nodes whose pre_visit succeeded and whose
\* post_visit has not run, each with the id its pre_visit drew, in the order
\* of their pre_visit; id0 is the generator's value before the traversal
OpenAfter(id0, k) ==
    IF k = 0 THEN <<>>
    ELSE LET c == v_log[k]
             before == OpenAfter(id0, k - 1)
         IN  IF c.call = "pre_visit"
             THEN IF c.ans = VisitOk(TRUE)
                  THEN Append(before, [node |-> c.node, id |-> id0 + PreCalls(k)])
                  ELSE before
             ELSE SelectSeq(before, LAMBDA e : e.node # c.node)

\* the root first, then each node an input of the one before it
RootToLeaf(open) ==
    /\ open # <<>> => open[1].node = 1
    /\ \A i \in 1..(Len(open) - 1) :
          \E j \in DOMAIN v_tree[open[i].node] :
              v_tree[open[i].node][j] = open[i + 1].node

\* C23: in every traversal by GraphvizVisitor, pre_visit failing before its
\* push included, parent_ids holds exactly the ids of the nodes whose
\* pre_visit succeeded and whose post_visit has not run, from the root down
\* to the innermost; it is not empty when post_visit is about to be called,
\* so the pop never fails; it is empty after a complete traversal.
C23_ParentIds ==
    v_kind = "GraphvizVisitor" =>
        \E id0 \in {0, 1} :
            LET open == OpenAfter(id0, Len(v_log)) IN
            /\ id0 = 1 <=> (\E i \in DOMAIN v_plan :
                                v_plan[i].call = "pre_visit_plan")
            /\ id_gen = id0 + PreCalls(Len(v_log))
            /\ parent_ids = [i \in 1..Len(open) |-> open[i].id]
            /\ RootToLeaf(open)
            /\ (v_at = "in" /\ Top.visited = Len(v_tree[Top.node]))
                    => parent_ids # <<>>
            /\ v_ret # VisitPanic
            /\ \A i \in 1..Len(v_log) : v_log[i].ans # VisitPanic
            /\ v_ret = VisitOk(TRUE) => parent_ids = <<>>

\* a root with two inputs, after pre_visit_plan took id 1: the first input
\* was visited and left, the second's node line was written and the write
\* of its id in the edge's line failed, so its id 4 was not pushed
C23_Witness ==
    /\ v_kind = "GraphvizVisitor"
    /\ ~with_schema
    /\ v_tree = <<(<<2, 3>>), <<>>, <<>>>>
    /\ Len(v_log) = 4
    /\ v_log[3] = VisitCall("post_visit", 2, VisitOk(TRUE))
    /\ v_log[4] = VisitCall("pre_visit", 3, VisitErr)
    /\ v_ret = VisitErr
    /\ id_gen = 4
    /\ parent_ids = <<2>>
    /\ v_plan = <<PlanCall("pre_visit_plan", TRUE)>>
    /\ SubSeq(v_f, Len(v_f) - 7, Len(v_f))
          = <<"    ", "4", "[shape=box label=", "\"CsvScan: employee.csv\"",
              "]\n", "    ", "2", " -> ">>

=============================================================================
